---- MODULE Spec2Model ----
(***************************************************************************)
(* Model of scraper-classicist-org: the Playwright crawl of                *)
(* scraper/scraper_core.py, the scrape and scrape-details commands of      *)
(* scraper/commands.py and the BeautifulSoup parser and data extractor of  *)
(* scraper/parsers.py.                                                     *)
(*                                                                         *)
(* Text is modelled as a sequence of one-character strings, a URL as a     *)
(* sequence of string fragments (a substring test is a test on fragments). *)
(***************************************************************************)
EXTENDS Integers, Sequences, FiniteSets, TLC

VARIABLES
    mode,        \* the entry point this behaviour calls
    method,      \* the crawl method the call runs, "none" before the call
    pc,          \* position of the running coroutine
    url,         \* the url argument of the crawl
    depth,       \* the depth argument of scrape
    context,     \* ClassicistScraper.context is set (initialize has run)
    logger,      \* ClassicistScraper.logger is set
    pageLinks,   \* the anchors of the document served at url
    listing,     \* the .list-item elements of the document served at url
    results,     \* the results dict being built
    returned,    \* the value handed back to the caller
    propagated,  \* an exception left the coroutine
    navigated,   \* the urls page.goto was called with, in order
    openPages,   \* pages opened by context.new_page and not closed
    failedAt,    \* the await that raised, "none" while none has
    doc,         \* the document an extractor is applied to
    soup,        \* the BeautifulSoup tree the parser holds, node by node
    data,        \* the data object the detail script is filling
    pos,         \* the index of the detail script's running loop
    out,         \* what the extractor returned
    rows,        \* the rows of the input CSV of scrape-details
    startFrom,   \* args.start_from
    limit,       \* args.limit
    selected,    \* selected_members
    idx,         \* the members of selected_members the loop is done with
    detailData,  \* detail_data of the running _scrape_single_member_details
    detailed,    \* detailed_members
    reported,    \* the error_msg texts the member loop has reported
    warnings,    \* the warnings given to the logger
    outcomes,    \* per member done, the await that raised or "none"
    sleeps,      \* the asyncio.sleep(2.0) calls awaited
    exitCode,    \* what the command returned, -1 while it runs
    resources,   \* what initialize has started and close has not closed
    interruptedAt, \* where the command was when the interrupt arrived, "none" without
    closeFailed  \* a call of ClassicistScraper.close raised

crawlVars == <<mode, method, pc, url, depth, context, logger, pageLinks, listing,
               results, returned, propagated, navigated, openPages, failedAt>>

runVars == <<rows, startFrom, limit, selected, idx, detailData, detailed, reported,
             warnings, outcomes, sleeps, exitCode>>

driverVars == <<resources, interruptedAt, closeFailed>>

crawlExceptPc == <<mode, method, url, depth, context, logger, pageLinks, listing,
                   results, returned, propagated, navigated, openPages, failedAt,
                   runVars, driverVars>>

\* what the crawl leaves alone
notCrawl == <<doc, soup, data, pos, out, runVars, driverVars>>

vars == <<crawlVars, notCrawl>>

----------------------------------------------------------------------------
(* Bounds of the model *)

MaxLinks == 2
MaxDepth == 2
MaxItems == 2

----------------------------------------------------------------------------
(* Sequences and text *)

Range(s) == { s[i] : i \in 1..Len(s) }

SeqsUpTo(S, n) == UNION { [1..k -> S] : k \in 0..n }

Min(a, b) == IF a < b THEN a ELSE b

Take(s, n) == SubSeq(s, 1, Min(n, Len(s)))

\* sub occurs in s as a contiguous run
Includes(s, sub) ==
    \E i \in 0..(Len(s) - Len(sub)) : SubSeq(s, i + 1, i + Len(sub)) = sub

\* Python: frag in url, on a url made of fragments
Contains(u, frag) == \E i \in 1..Len(u) : u[i] = frag

----------------------------------------------------------------------------
(* No scrape-details run *)

NoRun ==
    /\ rows = <<>> /\ startFrom = 0 /\ limit = 0 /\ selected = <<>> /\ idx = 0
    /\ detailData = <<>> /\ detailed = <<>> /\ reported = <<>> /\ warnings = <<>>
    /\ outcomes = <<>> /\ sleeps = 0 /\ exitCode = -1
    /\ resources = {} /\ interruptedAt = "none" /\ closeFailed = FALSE

----------------------------------------------------------------------------
(* The site *)

HomeUrl      == <<"https://", "classicist.org", "/">>
AboutUrl     == <<"https://", "classicist.org", "/", "about", "/">>
DirectoryUrl == <<"https://", "www.", "classicist.org", "/", "membership-directory", "/">>
OldDirUrl    == <<"https://", "classicist.org", "/", "old-", "membership-directory", "-2019">>
FeedUrl      == <<"https://", "classicist.org", "/", "feed", "/">>
ExternalUrl  == <<"https://", "example.com", "/">>

SeedUrls == {HomeUrl, AboutUrl, DirectoryUrl, OldDirUrl}
LinkUrls == {AboutUrl, FeedUrl, ExternalUrl}

Causes == {"Timeout 30000ms exceeded", "net::ERR_NAME_NOT_RESOLVED"}

NoResult == [keys |-> {}, url |-> <<>>, data |-> <<>>, members |-> <<>>, errors |-> <<>>]

----------------------------------------------------------------------------
(* JavaScript strings *)

IsSpace(c) == c \in {" ", "\n", "\t"}

RECURSIVE TrimStart(_)
TrimStart(t) ==
    IF t # <<>> /\ IsSpace(Head(t)) THEN TrimStart(Tail(t)) ELSE t

RECURSIVE TrimEnd(_)
TrimEnd(t) ==
    IF t # <<>> /\ IsSpace(t[Len(t)]) THEN TrimEnd(SubSeq(t, 1, Len(t) - 1)) ELSE t

\* String.prototype.trim
Trim(t) == TrimEnd(TrimStart(t))

\* String.prototype.split(sep) for a one-character sep: the pieces between the
\* separators, empty pieces included
RECURSIVE SplitOn(_, _)
SplitOn(t, sep) ==
    IF \A i \in 1..Len(t) : t[i] # sep
    THEN <<t>>
    ELSE LET i == CHOOSE k \in 1..Len(t) : t[k] = sep /\ \A j \in 1..(k - 1) : t[j] # sep
         IN  <<SubSeq(t, 1, i - 1)>> \o SplitOn(SubSeq(t, i + 1, Len(t)), sep)

\* String.prototype.startsWith, the prefix being one fragment
StartsWith(t, prefix) == t # <<>> /\ t[1] = prefix

\* String.prototype.replace(pat, ''): the first occurrence of pat removed
ReplaceFirst(t, pat) ==
    IF \A i \in 1..Len(t) : t[i] # pat
    THEN t
    ELSE LET i == CHOOSE k \in 1..Len(t) : t[k] = pat /\ \A j \in 1..(k - 1) : t[j] # pat
         IN  SubSeq(t, 1, i - 1) \o SubSeq(t, i + 1, Len(t))

FindLastPrefixed(tokens, prefix) ==
    IF \E i \in 1..Len(tokens) : StartsWith(tokens[i], prefix)
    THEN CHOOSE i \in 1..Len(tokens) :
            StartsWith(tokens[i], prefix)
            /\ \A j \in (i + 1)..Len(tokens) : ~StartsWith(tokens[j], prefix)
    ELSE 0

\* Array.prototype.find: the index of the first element satisfying the test, 0 for
\* undefined
FindPrefixed(tokens, prefix) ==
    IF \E i \in 1..Len(tokens) : StartsWith(tokens[i], prefix)
    THEN CHOOSE i \in 1..Len(tokens) :
            StartsWith(tokens[i], prefix)
            /\ \A j \in 1..(i - 1) : ~StartsWith(tokens[j], prefix)
    ELSE 0

----------------------------------------------------------------------------
(* ClassicistScraper._extract_members_from_directory *)

\* The id read from the class attribute for one prefix: <<set, value>>
ClassId(className, prefix) ==
    LET classList == SplitOn(className, " ")
        i         == FindPrefixed(classList, prefix)
    IN  IF i = 0 THEN <<FALSE, <<>>>> ELSE <<TRUE, ReplaceFirst(classList[i], prefix)>>

\* The member object built for one .list-item element
MemberOf(element) ==
    LET prof  == ClassId(element.className, "profession-")
        chap  == ClassId(element.className, "chapter-")
        level == ClassId(element.className, "level-")
    IN  [ keys          |-> {"certified"}
                            \cup (IF element.anchor THEN {"name", "detail_url"} ELSE {})
                            \cup (IF element.dataTitle # <<>> THEN {"data_title"} ELSE {})
                            \cup (IF prof[1] THEN {"profession_id"} ELSE {})
                            \cup (IF chap[1] THEN {"chapter_id"} ELSE {})
                            \cup (IF level[1] THEN {"level_id"} ELSE {}),
          name          |-> IF element.anchor THEN Trim(element.nameText) ELSE <<>>,
          detail_url    |-> IF element.anchor THEN element.href ELSE <<>>,
          data_title    |-> element.dataTitle,
          certified     |-> element.certified,
          profession_id |-> prof[2],
          chapter_id    |-> chap[2],
          level_id      |-> level[2] ]

KeepsAnonymous(member) == TRUE

\* if (member.name): the key is set and the string is not empty
Keeps(member) == "name" \in member.keys /\ member.name # <<>>

RECURSIVE ExtractMembersFromDirectory(_)
ExtractMembersFromDirectory(elements) ==
    IF elements = <<>>
    THEN <<>>
    ELSE LET member == MemberOf(Head(elements))
         IN  (IF Keeps(member) THEN <<member>> ELSE <<>>)
                \o ExtractMembersFromDirectory(Tail(elements))

----------------------------------------------------------------------------
(* Sample listing elements of a directory page *)

Item(anchor, nameText, certified, className) ==
    [ anchor |-> anchor, nameText |-> nameText, href |-> AboutUrl,
      dataTitle |-> <<>>, certified |-> certified, className |-> className ]

NamedItem   == Item(TRUE, <<"A">>, TRUE, <<"list-item", " ", "profession-", "7">>)
UnnamedItem == Item(FALSE, <<>>, FALSE, <<"list-item">>)

SampleListings == { <<>>, <<NamedItem>>, <<NamedItem, UnnamedItem, NamedItem>> }

----------------------------------------------------------------------------
(* ClassicistScraper.scrape, scrape_members_directory, _scrape_generic_page *)

FormatErrorNoUrl(prefix, u, cause) == <<prefix, cause>>

\* f"Failed to scrape page {url}: {str(e)}"
FormatError(prefix, u, cause) == <<prefix>> \o u \o <<": ", cause>>

\* results = {'url': url, 'timestamp': ..., 'members': [], 'errors': []}
DirectoryResults(u) ==
    [ keys |-> {"url", "timestamp", "members", "errors"},
      url |-> u, data |-> <<>>, members |-> <<>>, errors |-> <<>> ]

\* results = {'url': url, 'timestamp': ..., 'data': [], 'errors': []}
GenericResults(u) ==
    [ keys |-> {"url", "timestamp", "data", "errors"},
      url |-> u, data |-> <<>>, members |-> <<>>, errors |-> <<>> ]

\* the dispatch of scrape
IsDirectoryUrl(u) == u = DirectoryUrl \/ Contains(u, "membership-directory")

\* page.evaluate of _scrape_generic_page
PageData(u, links) ==
    [ url |-> u, title |-> <<"t">>, content |-> <<"c">>,
      links |-> [ i \in 1..Len(links) |-> [text |-> <<"l">>, url |-> links[i]] ] ]

ErrorPrefix(m) ==
    IF m = "directory" THEN "Failed to scrape directory " ELSE "Failed to scrape page "

ExceptReraise(res, m, u, cause) == [results |-> res, propagated |-> TRUE]

\* except Exception as e: results['errors'].append(error_msg)
Except(res, m, u, cause) ==
    [ results    |-> [res EXCEPT !.errors = Append(@, FormatError(ErrorPrefix(m), u, cause))],
      propagated |-> FALSE ]

\* an await of the try block raises at step `at`
Raise(at, cause) ==
    LET handled == Except(results, method, url, cause)
    IN  /\ results' = handled.results
        /\ propagated' = handled.propagated
        /\ failedAt' = at
        /\ pc' = IF handled.propagated THEN "raised" ELSE "return"

CallScrape ==
    /\ mode = "scrape" /\ pc = "idle"
    /\ method' = IF IsDirectoryUrl(url) THEN "directory" ELSE "generic"
    /\ results' = IF IsDirectoryUrl(url) THEN DirectoryResults(url) ELSE GenericResults(url)
    /\ pc' = "context"
    /\ UNCHANGED <<notCrawl, mode, url, depth, context, logger, pageLinks, listing, returned,
                   propagated, navigated, openPages, failedAt>>

CallScrapeMembersDirectory ==
    /\ mode = "scrape_members_directory" /\ pc = "idle"
    /\ method' = "directory"
    /\ results' = DirectoryResults(url)
    /\ pc' = "context"
    /\ UNCHANGED <<notCrawl, mode, url, depth, context, logger, pageLinks, listing, returned,
                   propagated, navigated, openPages, failedAt>>

CallScrapeGenericPage ==
    /\ mode = "_scrape_generic_page" /\ pc = "idle"
    /\ method' = "generic"
    /\ results' = GenericResults(url)
    /\ pc' = "context"
    /\ UNCHANGED <<notCrawl, mode, url, depth, context, logger, pageLinks, listing, returned,
                   propagated, navigated, openPages, failedAt>>

\* if not self.context: raise RuntimeError("Browser context not initialized")
CheckContext ==
    /\ method \in {"directory", "generic"} /\ pc = "context"
    /\ IF context
       THEN /\ pc' = "new_page"
            /\ UNCHANGED <<results, propagated, failedAt>>
       ELSE Raise("context", "Browser context not initialized")
    /\ UNCHANGED <<notCrawl, mode, method, url, depth, context, logger, pageLinks, listing, returned,
                   navigated, openPages>>

\* page = await self.context.new_page()
NewPage ==
    /\ method \in {"directory", "generic"} /\ pc = "new_page"
    /\ \/ /\ openPages' = openPages + 1
          /\ pc' = "goto"
          /\ UNCHANGED <<results, propagated, failedAt>>
       \/ /\ \E cause \in Causes : Raise("new_page", cause)
          /\ UNCHANGED openPages
    /\ UNCHANGED <<notCrawl, mode, method, url, depth, context, logger, pageLinks, listing, returned,
                   navigated>>

\* await page.goto(url, wait_until='networkidle')
Goto ==
    /\ method \in {"directory", "generic"} /\ pc = "goto"
    /\ navigated' = Append(navigated, url)
    /\ \/ /\ pc' = "wait"
          /\ UNCHANGED <<results, propagated, failedAt>>
       \/ \E cause \in Causes : Raise("goto", cause)
    /\ UNCHANGED <<notCrawl, mode, method, url, depth, context, logger, pageLinks, listing, returned,
                   openPages>>

\* await page.wait_for_timeout(2000)
WaitForTimeout ==
    /\ method \in {"directory", "generic"} /\ pc = "wait"
    /\ \/ /\ pc' = IF method = "directory" /\ logger THEN "debug" ELSE "evaluate"
          /\ UNCHANGED <<results, propagated, failedAt>>
       \/ \E cause \in Causes : Raise("wait", cause)
    /\ UNCHANGED <<notCrawl, mode, method, url, depth, context, logger, pageLinks, listing, returned,
                   navigated, openPages>>

\* the debug screenshot of scrape_members_directory: its own try swallows a failure
SaveDebugFiles ==
    /\ method = "directory" /\ pc = "debug"
    /\ pc' = "evaluate"
    /\ UNCHANGED <<notCrawl, mode, method, url, depth, context, logger, pageLinks, listing, results,
                   returned, propagated, navigated, openPages, failedAt>>

EvaluateDirectoryWithDetails ==
    /\ method = "directory" /\ pc = "evaluate"
    /\ results' = [results EXCEPT !.members = ExtractMembersFromDirectory(listing)]
    /\ navigated' = navigated \o [i \in 1..Len(ExtractMembersFromDirectory(listing)) |-> AboutUrl]
    /\ pc' = "close"
    /\ UNCHANGED <<notCrawl, mode, method, url, depth, context, logger, pageLinks, listing, returned,
                   openPages, propagated, failedAt>>

\* members_data = await self._extract_members_from_directory(page);
\* results['members'] = members_data
EvaluateDirectory ==
    /\ method = "directory" /\ pc = "evaluate"
    /\ \/ /\ results' = [results EXCEPT !.members = ExtractMembersFromDirectory(listing)]
          /\ pc' = "close"
          /\ UNCHANGED <<propagated, failedAt>>
       \/ \E cause \in Causes : Raise("evaluate", cause)
    /\ UNCHANGED <<notCrawl, mode, method, url, depth, context, logger, pageLinks, listing, returned,
                   navigated, openPages>>

EvaluateGenericPerLink ==
    /\ method = "generic" /\ pc = "evaluate"
    /\ results' = [results EXCEPT !.data =
                      @ \o <<PageData(url, pageLinks)>>
                        \o [i \in 1..Len(pageLinks) |-> PageData(pageLinks[i], <<>>)]]
    /\ pc' = "close"
    /\ UNCHANGED <<notCrawl, mode, method, url, depth, context, logger, pageLinks,
                   listing, returned, navigated, openPages, propagated, failedAt>>

\* page_data = await page.evaluate(...); results['data'].append(page_data)
EvaluateGeneric ==
    /\ method = "generic" /\ pc = "evaluate"
    /\ \/ /\ results' = [results EXCEPT !.data = Append(@, PageData(url, pageLinks))]
          /\ pc' = "close"
          /\ UNCHANGED <<propagated, failedAt>>
       \/ \E cause \in Causes : Raise("evaluate", cause)
    /\ UNCHANGED <<notCrawl, mode, method, url, depth, context, logger, pageLinks, listing, returned,
                   navigated, openPages>>

ClosePageRefetch ==
    /\ method \in {"directory", "generic"} /\ pc = "close"
    /\ \/ /\ openPages' = openPages - 1
          /\ pc' = "return"
       \/ /\ pc' = "goto"
          /\ UNCHANGED openPages
    /\ UNCHANGED <<notCrawl, mode, method, url, depth, context, logger, pageLinks, listing, returned,
                   navigated, results, propagated, failedAt>>

\* await page.close(), the last statement of the try block
ClosePage ==
    /\ method \in {"directory", "generic"} /\ pc = "close"
    /\ \/ /\ openPages' = openPages - 1
          /\ pc' = "return"
          /\ UNCHANGED <<results, propagated, failedAt>>
       \/ /\ \E cause \in Causes : Raise("close", cause)
          /\ UNCHANGED openPages
    /\ UNCHANGED <<notCrawl, mode, method, url, depth, context, logger, pageLinks, listing, returned,
                   navigated>>

\* return results
Return ==
    /\ method \in {"directory", "generic"} /\ pc = "return"
    /\ returned' = results
    /\ pc' = "done"
    /\ UNCHANGED <<notCrawl, mode, method, url, depth, context, logger, pageLinks, listing, results,
                   propagated, navigated, openPages, failedAt>>

InitCrawl ==
    /\ mode \in {"scrape", "scrape_members_directory", "_scrape_generic_page"}
    /\ method = "none"
    /\ pc = "idle"
    /\ url \in SeedUrls
    /\ depth \in 1..MaxDepth
    /\ context \in BOOLEAN
    /\ logger \in BOOLEAN
    /\ pageLinks \in SeqsUpTo(LinkUrls, MaxLinks)
    /\ listing \in SampleListings
    /\ results = NoResult
    /\ returned = NoResult
    /\ propagated = FALSE
    /\ navigated = <<>>
    /\ openPages = 0
    /\ failedAt = "none"
    /\ doc = <<>>
    /\ soup = <<>>
    /\ data = <<>>
    /\ pos = 0
    /\ out = <<>>
    /\ NoRun

NextCrawl ==
    \/ CallScrape
    \/ CallScrapeMembersDirectory
    \/ CallScrapeGenericPage
    \/ CheckContext
    \/ NewPage
    \/ Goto
    \/ WaitForTimeout
    \/ SaveDebugFiles
    \/ EvaluateDirectory
    \/ EvaluateGeneric
    \/ ClosePage
    \/ Return

SpecCrawl == InitCrawl /\ [][NextCrawl]_vars

----------------------------------------------------------------------------
(* The Link Classifier and the child-link cap of the crawl orchestrator *)

TargetDomain == "classicist.org"

Denylist == {"feed", "wp-admin", "mailto:"}

InScope(u) == Contains(u, TargetDomain) /\ \A d \in Denylist : ~Contains(u, d)

CrawlCap == 10

\* the unique in-scope urls of a link list, in first-seen order
RECURSIVE UniqueInScope(_, _)
UniqueInScope(links, seen) ==
    IF links = <<>>
    THEN <<>>
    ELSE IF InScope(Head(links)) /\ Head(links) \notin seen
         THEN <<Head(links)>> \o UniqueInScope(Tail(links), seen \cup {Head(links)})
         ELSE UniqueInScope(Tail(links), seen)

----------------------------------------------------------------------------
(* Claims about the crawl *)

FetchSteps == {"context", "new_page", "goto", "wait"}

\* C1: whatever await of scrape, scrape_members_directory or _scrape_generic_page
\* raises, the exception does not leave the call: the call goes on to return, and
\* what it returns carries the requested url and an errors list holding the failure.
C1_ErrorsAreReturned ==
    /\ ~propagated /\ pc # "raised"
    /\ failedAt # "none" => pc \in {"return", "done"} /\ results.errors # <<>>
    /\ pc = "done" =>
          /\ {"url", "errors"} \subseteq returned.keys
          /\ returned.url = url
          /\ (failedAt # "none" => returned.errors # <<>>)

C1_Witness ==
    pc = "done" /\ failedAt = "goto" /\ returned.url = url /\ Len(returned.errors) = 1

\* C2: when the fetch of the seed url fails, the returned result has no page record
\* (and no member), and exactly one error string, which contains the seed url.
C2_SeedFailure ==
    (pc = "done" /\ failedAt \in FetchSteps) =>
        /\ returned.data = <<>> /\ returned.members = <<>>
        /\ Len(returned.errors) = 1
        /\ Includes(returned.errors[1], url)

C2_Witness ==
    pc = "done" /\ failedAt = "wait" /\ method = "generic" /\ Len(returned.errors) = 1

\* C3 (as claimed): a generic crawl with depth > 1 whose seed was fetched fetches,
\* after the seed, the first min(10, n) unique in-scope links of the seed page, in
\* first-seen order.
C3_ChildrenFetched ==
    (pc = "done" /\ mode = "scrape" /\ method = "generic" /\ depth > 1
        /\ failedAt = "none") =>
        Tail(navigated) = Take(UniqueInScope(pageLinks, {}), CrawlCap)

----------------------------------------------------------------------------
(* ScrapeDetailsCommand._scrape_single_member_details: the page.evaluate script *)

AboutMinLen   == 50
AboutMaxLen   == 2000
AboutMinWords == 10
AboutMaxWords == 500
SrcMinLen     == 10

RECURSIVE TextLen(_)
\* String.prototype.length of a text made of fragments
TextLen(t) == IF t = <<>> THEN 0 ELSE Len(Head(t)) + TextLen(Tail(t))

\* String.prototype.includes, on fragments
TextIncludes(t, frag) == \E i \in 1..Len(t) : t[i] = frag

\* String.prototype.toLowerCase, on the fragments the script looks for
LowerFrag(f) ==
    CASE f = "Logo"    -> "logo"
      [] f = "Firm"    -> "firm"
      [] f = "Company" -> "company"
      [] f = "Member"  -> "member"
      [] OTHER         -> f

ToLowerCase(t) == [i \in 1..Len(t) |-> LowerFrag(t[i])]

RECURSIVE JoinLines(_)
\* the text of a block whose lines are separated by line breaks
JoinLines(lines) ==
    IF lines = <<>> THEN <<>>
    ELSE IF Len(lines) = 1 THEN lines[1]
    ELSE lines[1] \o <<"\n">> \o JoinLines(Tail(lines))

\* Array.prototype.filter(line => line) after map(line => line.trim())
RECURSIVE TrimmedNonEmpty(_)
TrimmedNonEmpty(lines) ==
    IF lines = <<>> THEN <<>>
    ELSE (IF Trim(Head(lines)) # <<>> THEN <<Trim(Head(lines))>> ELSE <<>>)
            \o TrimmedNonEmpty(Tail(lines))

IsDigit(c) == c \in {"0", "1", "2", "3", "4", "5", "6", "7", "8", "9"}

Digits(t, from, n) ==
    from + n - 1 <= Len(t) /\ \A j \in from..(from + n - 1) : IsDigit(t[j])

CharAt(t, i, c) == i <= Len(t) /\ t[i] = c

\* the number of whitespace characters of t from position i on
RECURSIVE SpaceRun(_, _)
SpaceRun(t, i) == IF i <= Len(t) /\ IsSpace(t[i]) THEN 1 + SpaceRun(t, i + 1) ELSE 0

\* the length of the match of \(\d{3}\)\s*\d{3}-\d{4} at position i, 0 for none
ParenPhoneAt(t, i) ==
    LET gap == SpaceRun(t, i + 5)
        j   == i + 5 + gap
    IN  IF /\ CharAt(t, i, "(") /\ Digits(t, i + 1, 3) /\ CharAt(t, i + 4, ")")
           /\ Digits(t, j, 3) /\ CharAt(t, j + 3, "-") /\ Digits(t, j + 4, 4)
        THEN j + 8 - i
        ELSE 0

\* the length of the match of \d{3}-\d{3}-\d{4} at position i, 0 for none
DashPhoneAt(t, i) ==
    IF /\ Digits(t, i, 3) /\ CharAt(t, i + 3, "-") /\ Digits(t, i + 4, 3)
       /\ CharAt(t, i + 7, "-") /\ Digits(t, i + 8, 4)
    THEN 12
    ELSE 0

PhoneAt(t, i) == IF ParenPhoneAt(t, i) > 0 THEN ParenPhoneAt(t, i) ELSE DashPhoneAt(t, i)

\* /\(\d{3}\)\s*\d{3}-\d{4}|\d{3}-\d{3}-\d{4}/.test(line)
PhoneTest(line) == \E i \in 1..Len(line) : PhoneAt(line, i) > 0

\* the defaults of the script's data object
DefaultData ==
    [ mailing_address |-> <<>>, phone |-> <<>>, email |-> <<>>, about |-> <<>>,
      social_media |-> <<>>, photos |-> <<>>, logo |-> <<>>, highlights |-> <<>>,
      field |-> <<>>, city |-> <<>>, state |-> <<>> ]

\* city and state from the first address line
LocationOfWholeLine(first) == [city |-> first, state |-> <<>>]

LocationOf(first) ==
    LET locationParts == SplitOn(first, ",")
    IN  IF Len(locationParts) >= 2
        THEN [city |-> Trim(locationParts[1]), state |-> Trim(locationParts[2])]
        ELSE [city |-> first, state |-> <<>>]

PhoneOfLastLine(addressLines) ==
    IF \E i \in 2..Len(addressLines) : PhoneTest(addressLines[i])
    THEN addressLines[CHOOSE i \in 2..Len(addressLines) :
            PhoneTest(addressLines[i])
            /\ \A j \in (i + 1)..Len(addressLines) : ~PhoneTest(addressLines[j])]
    ELSE <<>>

\* for (let i = 1; ...) { if (test(line)) { data.phone = line; break; } }
PhoneOf(addressLines) ==
    IF \E i \in 2..Len(addressLines) : PhoneTest(addressLines[i])
    THEN addressLines[CHOOSE i \in 2..Len(addressLines) :
            PhoneTest(addressLines[i])
            /\ \A j \in 2..(i - 1) : ~PhoneTest(addressLines[j])]
    ELSE <<>>

\* the #contacts-address block
AddressOf(d, addressText) ==
    LET addressLines == TrimmedNonEmpty(SplitOn(Trim(addressText), "\n"))
    IN  IF addressLines = <<>>
        THEN d
        ELSE [d EXCEPT !.city  = LocationOf(addressLines[1]).city,
                       !.state = IF Len(SplitOn(addressLines[1], ",")) >= 2
                                 THEN LocationOf(addressLines[1]).state ELSE @,
                       !.phone = IF PhoneOf(addressLines) # <<>>
                                 THEN PhoneOf(addressLines) ELSE @]

\* the #contacts-email element: either branch stores a non-empty text
EmailOf(d, emailText) ==
    IF Trim(emailText) # <<>> THEN [d EXCEPT !.email = Trim(emailText)] ELSE d

\* a candidate of the about strategy passes the script's filters
AboutQualifies(cand) ==
    LET text  == Trim(cand.text)
        words == Len(SplitOn(text, "s+"))
    IN  /\ TextLen(text) > AboutMinLen /\ TextLen(text) < AboutMaxLen
        /\ ~cand.footer
        /\ ~TextIncludes(text, "Copyright")
        /\ ~TextIncludes(text, "All rights reserved")
        /\ words > AboutMinWords /\ words < AboutMaxWords

\* if (!data.about || text.length > data.about.length) data.about = text
AboutOf(d, cand) ==
    IF AboutQualifies(cand)
       /\ (d.about = <<>> \/ TextLen(Trim(cand.text)) > TextLen(d.about))
    THEN [d EXCEPT !.about = Trim(cand.text)]
    ELSE d

SocialNames == <<"facebook", "twitter", "linkedin", "instagram", "youtube">>

\* the selector a[href*="facebook"], a[href*="twitter"], ...
IsSocial(href) == \E i \in 1..Len(SocialNames) : Contains(href, SocialNames[i])

Platform(href) ==
    IF IsSocial(href)
    THEN SocialNames[CHOOSE i \in 1..Len(SocialNames) :
            Contains(href, SocialNames[i])
            /\ \A j \in 1..(i - 1) : ~Contains(href, SocialNames[j])]
    ELSE "other"

RECURSIVE SocialOf(_)
SocialOf(anchors) ==
    IF anchors = <<>> THEN <<>>
    ELSE (IF IsSocial(Head(anchors).href)
          THEN <<[platform |-> Platform(Head(anchors).href),
                  url |-> Head(anchors).href, text |-> Trim(Head(anchors).text)]>>
          ELSE <<>>) \o SocialOf(Tail(anchors))

IsMemberImage(img) ==
    \/ Contains(img.src, "member") \/ Contains(img.src, "firm")
    \/ Contains(img.src, "company")
    \/ img.inContent
    \/ /\ img.alt # <<>>
       /\ \/ TextIncludes(ToLowerCase(img.alt), "firm")
          \/ TextIncludes(ToLowerCase(img.alt), "company")
          \/ TextIncludes(ToLowerCase(img.alt), "member")

IsLogo(img) == Contains(img.src, "logo") \/ TextIncludes(ToLowerCase(img.alt), "logo")

\* the body of images.forEach
ImageOf(d, img) ==
    IF TextLen(img.src) > SrcMinLen /\ IsMemberImage(img)
    THEN IF IsLogo(img)
         THEN [d EXCEPT !.logo = img.src]
         ELSE [d EXCEPT !.photos = Append(@, [url |-> img.src, alt |-> img.alt])]
    ELSE d

\* Strategy 5: city and state from data.mailing_address
MailingLocationOf(d) ==
    LET addressParts == SplitOn(d.mailing_address, ",")
    IN  IF d.mailing_address # <<>> /\ Len(addressParts) >= 2
        THEN [d EXCEPT !.city  = Trim(addressParts[Len(addressParts) - 1]),
                       !.state = SplitOn(Trim(addressParts[Len(addressParts)]), " ")[1]]
        ELSE d

----------------------------------------------------------------------------
(* Sample detail pages *)

MaxAddressLines == 2
MaxAbout        == 2
MaxImages       == 2

FirstLines == { <<"S", "p", "r", "i", "n", "g", "f", "i", "e", "l", "d", ",", " ", "I", "L">>, <<"P", "a", "r", "i", "s">>, <<"R", "o", "m", "e", ",", " ", "R", "M", ",", " ", "I", "t", "a", "l", "y">> }

LaterLines == { <<"(", "5", "5", "5", ")", " ", "1", "2", "3", "-", "4", "5", "6", "7">>, <<"5", "5", "5", "-", "1", "2", "3", "-", "4", "5", "6", "7">>, <<"T", "e", "l", ":", " ", "(", "5", "5", "5", ")", "1", "2", "3", "-", "4", "5", "6", "7">>, <<"S", "u", "i", "t", "e", " ", "5">>, <<"5", "5", "5", "-", "1", "2", "3", "4">> }

Prose == <<"Founded in 1990, the firm designs classical houses and gardens.">>

\* n pieces separated by the two characters s+
RECURSIVE Pieces(_)
Pieces(n) == IF n = 1 THEN <<"glas">> ELSE <<"glas", "s+">> \o Pieces(n - 1)

AboutTexts == { <<"Architect.">>, Prose, Pieces(AboutMinWords + 1),
                Pieces(AboutMinWords + 2), Pieces(AboutMinWords + 1) \o <<" ", "Copyright">> }

AboutCandidates == { [text |-> t, footer |-> f] : t \in AboutTexts, f \in BOOLEAN }

SampleImages ==
    { [src |-> <<"https://", "classicist.org", "/", "member", "/", "logo", "-a.png">>,
       alt |-> <<>>, inContent |-> FALSE],
      [src |-> <<"https://", "classicist.org", "/", "firm", "/", "logo", "-b.png">>,
       alt |-> <<>>, inContent |-> FALSE],
      [src |-> <<"https://", "classicist.org", "/", "uploads", "/", "mark.png">>,
       alt |-> <<"Firm", " ", "Logo">>, inContent |-> FALSE],
      [src |-> <<"https://", "classicist.org", "/", "uploads", "/", "house.jpg">>,
       alt |-> <<>>, inContent |-> TRUE],
      [src |-> <<"https://", "classicist.org", "/", "theme", "/", "logo", ".png">>,
       alt |-> <<>>, inContent |-> FALSE],
      [src |-> <<"/", "firm">>, alt |-> <<>>, inContent |-> FALSE] }

BaseDoc ==
    [ position |-> <<>>, hasContacts |-> TRUE, emailText |-> <<>>, addressLines |-> <<>>,
      about |-> <<>>, anchors |-> <<>>, images |-> <<>> ]

MaxSocial == 2

\* anchors of a detail page: the href is scheme, host pieces, then "/" and the path
SocialAnchors ==
    { [href |-> <<"https://", "www.", "facebook", ".com", "/", "acme">>, text |-> <<" ", "Acme", " ">>],
      [href |-> <<"https://", "www.", "facebook", ".com", "/", "acme-studio">>, text |-> <<>>],
      [href |-> <<"https://", "twitter", ".com", "/", "facebook">>, text |-> <<"Feed">>],
      [href |-> <<"https://", "classicist.org", "/", "news", "/", "linkedin">>, text |-> <<>>],
      [href |-> <<"https://", "classicist.org", "/", "contact">>, text |-> <<"Contact">>] }

SocialDocs ==
    { [BaseDoc EXCEPT !.anchors = a, !.hasContacts = c] :
        a \in SeqsUpTo(SocialAnchors, MaxSocial), c \in BOOLEAN }

AddressDocs ==
    { [BaseDoc EXCEPT !.addressLines = <<first>> \o rest, !.hasContacts = c] :
        first \in FirstLines, rest \in SeqsUpTo(LaterLines, MaxAddressLines), c \in BOOLEAN }

ContactDocs ==
    { [BaseDoc EXCEPT !.position = p, !.emailText = e, !.hasContacts = c] :
        p \in {<<>>, <<" ", "Architect", " ">>},
        e \in {<<>>, <<" ">>, <<"firm", "@", "example.com">>, <<"example.com">>},
        c \in BOOLEAN }

AboutDocs == { [BaseDoc EXCEPT !.about = a] : a \in SeqsUpTo(AboutCandidates, MaxAbout) }

ImageDocs == { [BaseDoc EXCEPT !.images = i] : i \in SeqsUpTo(SampleImages, MaxImages) }

DetailDocs == AddressDocs \cup ContactDocs \cup AboutDocs \cup ImageDocs \cup SocialDocs

----------------------------------------------------------------------------
(* The detail script, strategy by strategy *)

\* Strategy 1: #info-position and the #contacts section
Strategy1(d, page) ==
    LET positioned == IF page.position # <<>>
                      THEN [d EXCEPT !.field = Trim(page.position)] ELSE d
    IN  IF page.hasContacts
        THEN AddressOf(EmailOf(positioned, page.emailText), JoinLines(page.addressLines))
        ELSE positioned

PositionAndContacts ==
    /\ mode = "detail_script" /\ pc = "position"
    /\ data' = Strategy1(data, doc)
    /\ pos' = 1
    /\ pc' = "about"
    /\ UNCHANGED <<crawlExceptPc, doc, soup, out>>

\* Strategy 2: one element of one about selector
AboutCandidate ==
    /\ mode = "detail_script" /\ pc = "about" /\ pos <= Len(doc.about)
    /\ data' = AboutOf(data, doc.about[pos])
    /\ pos' = pos + 1
    /\ UNCHANGED <<crawlExceptPc, pc, doc, soup, out>>

\* Strategy 3: the social links of the #contacts section
SocialLinks ==
    /\ mode = "detail_script" /\ pc = "about" /\ pos > Len(doc.about)
    /\ data' = IF doc.hasContacts
               THEN [data EXCEPT !.social_media = @ \o SocialOf(doc.anchors)]
               ELSE data
    /\ pos' = 1
    /\ pc' = "images"
    /\ UNCHANGED <<crawlExceptPc, doc, soup, out>>

\* Strategy 4: one img element
Image ==
    /\ mode = "detail_script" /\ pc = "images" /\ pos <= Len(doc.images)
    /\ data' = ImageOf(data, doc.images[pos])
    /\ pos' = pos + 1
    /\ UNCHANGED <<crawlExceptPc, pc, doc, soup, out>>

\* Strategy 5 and return data
MailingLocation ==
    /\ mode = "detail_script" /\ pc = "images" /\ pos > Len(doc.images)
    /\ data' = MailingLocationOf(data)
    /\ out' = MailingLocationOf(data)
    /\ pc' = "evaluated"
    /\ UNCHANGED <<crawlExceptPc, doc, soup, pos>>

InitDetail ==
    /\ mode = "detail_script"
    /\ method = "none"
    /\ pc = "position"
    /\ url = AboutUrl
    /\ depth = 1
    /\ context = TRUE
    /\ logger = FALSE
    /\ pageLinks = <<>>
    /\ listing = <<>>
    /\ results = NoResult
    /\ returned = NoResult
    /\ propagated = FALSE
    /\ navigated = <<>>
    /\ openPages = 0
    /\ failedAt = "none"
    /\ doc \in DetailDocs
    /\ soup = <<>>
    /\ data = DefaultData
    /\ pos = 0
    /\ out = <<>>
    /\ NoRun

NextDetail ==
    \/ PositionAndContacts
    \/ AboutCandidate
    \/ SocialLinks
    \/ Image
    \/ MailingLocation

SpecDetail == InitDetail /\ [][NextDetail]_vars

----------------------------------------------------------------------------
(* Claims about the detail script *)

SingleFields == {"about", "logo", "city", "state", "phone", "email", "field",
                 "mailing_address"}

\* C8 (as claimed): every single-valued field is first-wins: once one candidate has
\* set it to a non-empty value, no later candidate or strategy replaces that value.
C8_FirstWins ==
    [][mode = "detail_script" =>
          \A f \in SingleFields : data[f] # <<>> => data'[f] = data[f]]_vars

HasChar(t, c) == \E i \in 1..Len(t) : t[i] = c

FirstIndex(t, c) == CHOOSE i \in 1..Len(t) : t[i] = c /\ \A j \in 1..(i - 1) : t[j] # c

BeforeFirst(t, c) == IF HasChar(t, c) THEN SubSeq(t, 1, FirstIndex(t, c) - 1) ELSE t

AfterFirst(t, c) == IF HasChar(t, c) THEN SubSeq(t, FirstIndex(t, c) + 1, Len(t)) ELSE <<>>

\* the leftmost match of the phone pattern in a line
PhoneNumberIn(line) ==
    LET i == CHOOSE n \in 1..Len(line) :
                PhoneAt(line, n) > 0 /\ \A j \in 1..(n - 1) : PhoneAt(line, j) = 0
    IN  SubSeq(line, i, i + PhoneAt(line, i) - 1)

FirstPhoneLine(lines) ==
    CHOOSE i \in 2..Len(lines) :
        PhoneTest(lines[i]) /\ \A j \in 2..(i - 1) : ~PhoneTest(lines[j])

AddressEvaluated ==
    mode = "detail_script" /\ pc = "evaluated" /\ doc.hasContacts /\ doc.addressLines # <<>>

\* C9 (as claimed): with a comma in the first line, city is the trimmed text before
\* the first comma and state the trimmed text after it; without one, city is the
\* whole line and state is empty; phone is the phone number found in the first later
\* line that matches the pattern, and empty when none matches.
C9_AddressAsClaimed ==
    AddressEvaluated =>
        LET lines == doc.addressLines
            first == lines[1]
        IN  /\ out.city = Trim(BeforeFirst(first, ","))
            /\ out.state = Trim(AfterFirst(first, ","))
            /\ out.phone = IF \E i \in 2..Len(lines) : PhoneTest(lines[i])
                           THEN PhoneNumberIn(lines[FirstPhoneLine(lines)])
                           ELSE <<>>

\* C9 (amended): city is the trimmed text before the first comma (the whole line
\* without a comma); state is the trimmed text between the first comma and the next
\* one (to the end of the line when there is no second comma, empty without a
\* comma); phone is the whole first later line in which the pattern matches, and
\* empty when none matches.
C9_Address ==
    AddressEvaluated =>
        LET lines == doc.addressLines
            first == lines[1]
        IN  /\ out.city = Trim(BeforeFirst(first, ","))
            /\ out.state = Trim(BeforeFirst(AfterFirst(first, ","), ","))
            /\ out.phone = IF \E i \in 2..Len(lines) : PhoneTest(lines[i])
                           THEN lines[FirstPhoneLine(lines)]
                           ELSE <<>>

\* the scenario of the specification: "Springfield, IL" then "(555) 123-4567"
C9_Witness ==
    /\ AddressEvaluated
    /\ doc.addressLines = << <<"S", "p", "r", "i", "n", "g", "f", "i", "e", "l", "d", ",", " ", "I", "L">>,
                             <<"(", "5", "5", "5", ")", " ", "1", "2", "3", "-", "4", "5", "6", "7">> >>
    /\ out.city = <<"S", "p", "r", "i", "n", "g", "f", "i", "e", "l", "d">>
    /\ out.state = <<"I", "L">>
    /\ out.phone = <<"(", "5", "5", "5", ")", " ", "1", "2", "3", "-", "4", "5", "6", "7">>

\* the host of a link: the pieces between the scheme and the first "/"
HostOf(href) ==
    LET rest == Tail(href)
    IN  IF HasChar(rest, "/") THEN BeforeFirst(rest, "/") ELSE rest

\* C21: every collected social link carries the platform found in the link's host,
\* in the order facebook, twitter, linkedin, instagram, youtube, and other when the
\* host names none of them.
C21_PlatformByHost ==
    mode = "detail_script" =>
        \A i \in 1..Len(data.social_media) :
            data.social_media[i].platform = Platform(HostOf(data.social_media[i].url))

----------------------------------------------------------------------------
(* The directory script applied to a listing *)

MaxClassLen == 4

ClassChunks == {" ", "profession-", "chapter-", "level-", "7"}

NameTexts == { <<>>, <<" ">>, <<"A">>, <<" ", "B", " ">> }

ListingItems ==
    { [ anchor |-> a, nameText |-> n, href |-> AboutUrl, dataTitle |-> t,
        certified |-> c, className |-> cl ] :
        a \in BOOLEAN, n \in NameTexts, t \in {<<>>, <<"Architect">>}, c \in BOOLEAN,
        cl \in { <<"list-item">>, <<"list-item", " ", "level-", "7">> } }

ClassItems ==
    { [ anchor |-> TRUE, nameText |-> <<"A">>, href |-> AboutUrl, dataTitle |-> <<>>,
        certified |-> c, className |-> cl ] :
        c \in BOOLEAN, cl \in SeqsUpTo(ClassChunks, MaxClassLen) }

\* members = await page.evaluate(...)
EvaluateListing ==
    /\ mode = "directory_script" /\ pc = "evaluate"
    /\ out' = ExtractMembersFromDirectory(listing)
    /\ pc' = "evaluated"
    /\ UNCHANGED <<crawlExceptPc, doc, soup, data, pos>>

InitListing ==
    /\ mode = "directory_script"
    /\ method = "none"
    /\ pc = "evaluate"
    /\ url = DirectoryUrl
    /\ depth = 1
    /\ context = TRUE
    /\ logger = FALSE
    /\ pageLinks = <<>>
    /\ listing \in SeqsUpTo(ListingItems, MaxItems) \cup { <<item>> : item \in ClassItems }
    /\ results = NoResult
    /\ returned = NoResult
    /\ propagated = FALSE
    /\ navigated = <<>>
    /\ openPages = 0
    /\ failedAt = "none"
    /\ doc = <<>>
    /\ soup = <<>>
    /\ data = <<>>
    /\ pos = 0
    /\ out = <<>>
    /\ NoRun

NextListing == EvaluateListing

SpecListing == InitListing /\ [][NextListing]_vars

----------------------------------------------------------------------------
(* Claims about the directory script *)

\* the item has a title anchor whose text is not only whitespace
Named(item) ==
    item.anchor /\ \E i \in 1..Len(item.nameText) : ~IsSpace(item.nameText[i])

\* C6: the script returns one record per listing item that has a title anchor with
\* a non-empty name, in document order, and discards every other item: as many
\* records as named items, each with its item's non-empty name and detail url.
C6_OneRecordPerNamedItem ==
    (mode = "directory_script" /\ pc = "evaluated") =>
        LET named == SelectSeq(listing, Named)
        IN  /\ Len(out) = Len(named)
            /\ \A i \in 1..Len(out) :
                  /\ out[i].name # <<>>
                  /\ Includes(named[i].nameText, out[i].name)
                  /\ \A j \in 1..Len(out[i].name) : j \in {1, Len(out[i].name)} =>
                        ~IsSpace(out[i].name[j])
                  /\ out[i].detail_url = named[i].href
                  /\ out[i].certified = named[i].certified

C6_Witness ==
    /\ mode = "directory_script" /\ pc = "evaluated"
    /\ Len(listing) = MaxItems /\ Len(out) = MaxItems - 1
    /\ ~listing[1].anchor

\* a class token starts at position i of the class attribute with the prefix
TokenAt(cl, i, prefix) == cl[i] = prefix /\ (i = 1 \/ cl[i - 1] = " ")

\* the rest of the token that starts at position i, its first fragment left out
RECURSIVE TokenRest(_, _)
TokenRest(cl, i) ==
    IF i + 1 > Len(cl) \/ cl[i + 1] = " " THEN <<>> ELSE <<cl[i + 1]>> \o TokenRest(cl, i + 1)

IdKeys == { <<"profession-", "profession_id">>, <<"chapter-", "chapter_id">>,
            <<"level-", "level_id">> }

\* C7: for each of the prefixes profession-, chapter-, level-, the id of a record is
\* set iff some class token of its item starts with the prefix, and is then the first
\* such token without the prefix; certified is always present and tells whether the
\* item has a certified marker; an item without such tokens still gives its record.
C7_ClassIds ==
    (mode = "directory_script" /\ pc = "evaluated") =>
        LET named == SelectSeq(listing, Named)
        IN  /\ Len(out) = Len(named)
            /\ \A i \in 1..Len(out) :
                  LET cl == named[i].className
                  IN  /\ "certified" \in out[i].keys
                      /\ out[i].certified = named[i].certified
                      /\ \A pk \in IdKeys :
                            LET starts == { n \in 1..Len(cl) : TokenAt(cl, n, pk[1]) }
                            IN  /\ pk[2] \in out[i].keys <=> starts # {}
                                /\ starts # {} =>
                                      out[i][pk[2]] =
                                          TokenRest(cl, CHOOSE n \in starts :
                                                           \A m \in starts : n <= m)

\* an item with two level- tokens and no profession- token
C7_Witness ==
    /\ mode = "directory_script" /\ pc = "evaluated" /\ Len(out) = 1
    /\ listing[1].className = <<"level-", "7", " ", "level-">>
    /\ out[1].level_id = <<"7">>
    /\ "profession_id" \notin out[1].keys

----------------------------------------------------------------------------
(* HTMLParser.extract_main_content on a BeautifulSoup tree *)
(* A tree is the sequence of its elements in document order; an element names  *)
(* its parent by position (0 for the document), holds its own strings, already *)
(* stripped, and is no longer alive once decompose() has removed it.           *)

MinBlockLen == 100

\* self.content_selectors
ContentSelectors ==
    << "main", "article", ".post-content", ".entry-content", ".content", "#content",
       "div[class*=content]", "div[class*=post]" >>

ClassTokens(el) == Range(SplitOn(el.class, " "))

\* the CSS selector matches the element
Matches(selector, el) ==
    CASE selector = "main"                -> el.tag = "main"
      [] selector = "article"             -> el.tag = "article"
      [] selector = ".post-content"       -> <<"post-", "content">> \in ClassTokens(el)
      [] selector = ".entry-content"      -> <<"entry-", "content">> \in ClassTokens(el)
      [] selector = ".content"            -> <<"content">> \in ClassTokens(el)
      [] selector = "#content"            -> el.id = "content"
      [] selector = "div[class*=content]" -> el.tag = "div" /\ Contains(el.class, "content")
      [] selector = "div[class*=post]"    -> el.tag = "div" /\ Contains(el.class, "post-")
      [] OTHER                            -> FALSE

\* element a is element d or one of its ancestors (0 is the document)
RECURSIVE Within(_, _, _)
Within(tree, d, a) ==
    IF d = a THEN TRUE
    ELSE IF d = 0 THEN FALSE
    ELSE Within(tree, tree[d].parent, a)

\* soup.select_one(selector): the position of the first match, 0 for None
SelectOne(tree, selector) ==
    LET hits == { i \in 1..Len(tree) : tree[i].alive /\ Matches(selector, tree[i]) }
    IN  IF hits = {} THEN 0 ELSE CHOOSE i \in hits : \A j \in hits : i <= j

\* element.find_all(tags): the descendants with one of the tags
FindAll(tree, root, tags) ==
    { i \in 1..Len(tree) :
        tree[i].alive /\ i # root /\ Within(tree, i, root) /\ tree[i].tag \in tags }

\* tag.decompose() for every element of a set: they and their descendants go
Decompose(tree, gone) ==
    [ i \in 1..Len(tree) |->
        IF \E g \in gone : Within(tree, i, g)
        THEN [tree[i] EXCEPT !.alive = FALSE]
        ELSE tree[i] ]

\* the strings below an element, in document order
RECURSIVE StringsFrom(_, _, _)
StringsFrom(tree, root, i) ==
    IF i > Len(tree) THEN <<>>
    ELSE (IF tree[i].alive /\ Within(tree, i, root) THEN tree[i].text ELSE <<>>)
            \o StringsFrom(tree, root, i + 1)

\* tag.get_text(strip=True)
GetText(tree, root) == StringsFrom(tree, root, 1)

\* tag.get_text(separator='\n', strip=True)
GetTextLines(tree, root) == JoinLines([i \in 1..Len(GetText(tree, root)) |-> <<GetText(tree, root)[i]>>])

\* _extract_largest_text_block: <<the tree it leaves, the text it returns>>
ExtractLargestTextBlock(tree) ==
    LET cleaned  == Decompose(tree, FindAll(tree, 0, {"script", "style"}))
        elements == { i \in FindAll(cleaned, 0, {"p", "div", "section", "article"}) :
                        TextLen(GetText(cleaned, i)) > MinBlockLen }
        largest  == CHOOSE i \in elements :
                        \A j \in elements :
                            \/ TextLen(GetText(cleaned, j)) < TextLen(GetText(cleaned, i))
                            \/ /\ TextLen(GetText(cleaned, j)) = TextLen(GetText(cleaned, i))
                               /\ i <= j
    IN  IF elements = {}
        THEN <<cleaned, GetTextLines(cleaned, 0)>>
        ELSE <<cleaned, GetTextLines(cleaned, largest)>>

\* the position in content_selectors of the first selector with a match, 0 for none
FirstSelector(tree) ==
    LET hits == { n \in 1..Len(ContentSelectors) : SelectOne(tree, ContentSelectors[n]) # 0 }
    IN  IF hits = {} THEN 0 ELSE CHOOSE n \in hits : \A m \in hits : n <= m

\* extract_main_content: <<the tree it leaves, the text it returns>>
ExtractMainContentOf(tree) ==
    IF FirstSelector(tree) # 0
    THEN LET element == SelectOne(tree, ContentSelectors[FirstSelector(tree)])
             cleaned == Decompose(tree, FindAll(tree, element,
                                                {"script", "style", "nav", "footer"}))
         IN  <<cleaned, GetTextLines(cleaned, element)>>
    ELSE ExtractLargestTextBlock(tree)

ExtractMainContent ==
    /\ mode = "parser" /\ pc = "parsed"
    /\ soup' = ExtractMainContentOf(soup)[1]
    /\ out' = ExtractMainContentOf(soup)[2]
    /\ pc' = "located"
    /\ UNCHANGED <<crawlExceptPc, doc, data, pos>>

----------------------------------------------------------------------------
(* Sample documents *)

MaxNodes == 3

LongText == "The Institute of Classical Architecture and Art advances the practice and appreciation of the classical tradition."

ShortText == "Menu"

ElementKinds ==
    { [tag |-> "main",   class |-> <<>>,          id |-> ""],
      [tag |-> "div",    class |-> <<"content">>, id |-> ""],
      [tag |-> "div",    class |-> <<>>,          id |-> ""],
      [tag |-> "p",      class |-> <<>>,          id |-> ""],
      [tag |-> "footer", class |-> <<>>,          id |-> ""],
      [tag |-> "script", class |-> <<>>,          id |-> ""] }

Containers == {"main", "div", "footer"}

\* an element of kind kd under parent p; a script holds code, which is no text
Element(kd, p, t) ==
    [ tag |-> kd.tag, class |-> kd.class, id |-> kd.id, parent |-> p,
      text |-> IF kd.tag = "script" THEN <<>> ELSE t, alive |-> TRUE ]

Trees ==
    { tree \in UNION { [1..n -> { Element(kd, p, t) :
                                    kd \in ElementKinds, p \in 0..(MaxNodes - 1),
                                    t \in {<<>>, <<ShortText>>, <<LongText>>} }] :
                       n \in 0..MaxNodes } :
        \A i \in 1..Len(tree) :
            /\ tree[i].parent < i
            /\ tree[i].parent # 0 => tree[tree[i].parent].tag \in Containers }

InitParser ==
    /\ mode = "parser"
    /\ method = "none"
    /\ pc = "parsed"
    /\ url = HomeUrl
    /\ depth = 1
    /\ context = TRUE
    /\ logger = FALSE
    /\ pageLinks = <<>>
    /\ listing = <<>>
    /\ results = NoResult
    /\ returned = NoResult
    /\ propagated = FALSE
    /\ navigated = <<>>
    /\ openPages = 0
    /\ failedAt = "none"
    /\ doc \in Trees
    /\ soup = doc
    /\ data = <<>>
    /\ pos = 0
    /\ out = <<>>
    /\ NoRun


----------------------------------------------------------------------------
(* Claims about the content locator *)

\* C10 (as claimed): extract_main_content returns a non-empty string for every
\* document that has a p, div, section or article element whose text is longer than
\* 100 characters, whichever structural selectors match in the document.
C10_NeverEmpty ==
    (mode = "parser" /\ pc = "located"
        /\ \E i \in 1..Len(doc) :
              /\ doc[i].tag \in {"p", "div", "section", "article"}
              /\ TextLen(GetText(doc, i)) > MinBlockLen) =>
        out # <<>>

\* C23: extract_main_content leaves the document it was given as it was: after the
\* call the document holds every element it held before, on the selector path and on
\* the largest-text-block path.
C23_DocumentUnchanged ==
    (mode = "parser" /\ pc = "located") => soup = doc

----------------------------------------------------------------------------
(* ScrapeDetailsCommand._run_details_async and _scrape_single_member_details *)

MaxRows  == 2
MaxStart == 1
MaxLimit == 2

RECURSIVE AboutAll(_, _)
AboutAll(d, cands) ==
    IF cands = <<>> THEN d ELSE AboutAll(AboutOf(d, Head(cands)), Tail(cands))

RECURSIVE ImagesAll(_, _)
ImagesAll(d, imgs) ==
    IF imgs = <<>> THEN d ELSE ImagesAll(ImageOf(d, Head(imgs)), Tail(imgs))

\* the whole page.evaluate script on one detail page
DetailScript(page) ==
    LET contacts == AboutAll(Strategy1(DefaultData, page), page.about)
        social   == IF page.hasContacts
                    THEN [contacts EXCEPT !.social_media = @ \o SocialOf(page.anchors)]
                    ELSE contacts
    IN  MailingLocationOf(ImagesAll(social, page.images))

DetailKeys == DOMAIN DefaultData

\* detail_data = {}
EmptyDetail == [keys |-> {}, values |-> DefaultData]

RichPage ==
    [ BaseDoc EXCEPT !.position = <<"Architect">>,
                     !.emailText = <<"firm", "@", "example.com">> ]

\* the rows of the CSV, each with the page its detail url serves; a row without a
\* detail url has detail_url = <<>> (NaN)
SampleRows ==
    { [name |-> "Ann", detail_url |-> AboutUrl, page |-> RichPage],
      [name |-> "Bob", detail_url |-> HomeUrl, page |-> BaseDoc],
      [name |-> "Cyd", detail_url |-> <<>>, page |-> BaseDoc] }

\* df['detail_url'].notna()
HasDetailUrl(row) == row.detail_url # <<>>

\* a slice bound as Python reads it: a negative bound counts from the end
SliceBound(i, n) == IF i < 0 THEN (IF n + i < 0 THEN 0 ELSE n + i) ELSE Min(i, n)

\* members_with_urls.iloc[start_idx:end_idx]
Slice(s, from, to) ==
    LET a == SliceBound(from, Len(s))
        b == SliceBound(to, Len(s))
    IN  IF b <= a THEN <<>> ELSE SubSeq(s, a + 1, b)

\* f"Failed to scrape member details from {url}: {str(e)}"
FormatWarning(u, cause) == <<"Failed to scrape member details from ">> \o u \o <<": ", cause>>

\* the member the loop is at
Member == selected[idx + 1]

\* the except branch of _scrape_single_member_details: the failure goes to the
\* logger, when there is one, and to nothing else; the call returns detail_data
MemberRaise(at) ==
    /\ failedAt' = at
    /\ warnings' = IF logger
                   THEN Append(warnings, FormatWarning(Member.detail_url, "Timeout 30000ms exceeded"))
                   ELSE warnings
    /\ pc' = "m_return"

runFixed == <<mode, method, url, depth, logger, pageLinks, listing, results, returned,
               propagated, doc, soup, data, pos, out, rows, startFrom, limit>>

runInputs == <<runFixed, driverVars>>

\* setup_directories, pd.read_csv, the filter on detail_url and the slice
LoadMembers ==
    /\ mode = "scrape_details" /\ pc = "load"
    /\ \/ /\ exitCode' = 1
          /\ pc' = "exited"
          /\ UNCHANGED selected
       \/ LET members_with_urls == SelectSeq(rows, HasDetailUrl)
          IN  IF Len(members_with_urls) = 0
              THEN /\ exitCode' = 1
                   /\ pc' = "exited"
                   /\ UNCHANGED selected
              ELSE /\ selected' = Slice(members_with_urls, startFrom,
                                        Min(startFrom + limit, Len(members_with_urls)))
                   /\ pc' = "initialize"
                   /\ UNCHANGED exitCode
    /\ UNCHANGED <<runInputs, context, navigated, openPages, failedAt, idx, detailData,
                   detailed, reported, warnings, outcomes, sleeps>>

Driver == {"playwright", "browser", "context"}

\* what initialize has started when its first, second or third await raises
Started == { {}, {"playwright"}, {"playwright", "browser"} }

\* what close leaves open when its first, second or third await raises
LeftOpen == { Driver, {"playwright", "browser"}, {"playwright"} }

CommandModes == {"scrape_command", "scrape_details"}

\* async with ClassicistScraper(...) as scraper: __aenter__ awaits initialize(), which
\* starts Playwright, launches the browser and opens the context, or raises on the way
EnterScraper ==
    /\ mode \in CommandModes /\ pc = "initialize"
    /\ \/ /\ resources' = Driver
          /\ context' = TRUE
          /\ pc' = IF mode = "scrape_details" THEN "loop" ELSE "idle"
          /\ UNCHANGED exitCode
       \/ /\ resources' \in Started
          /\ exitCode' = 1
          /\ pc' = "exited"
          /\ UNCHANGED context
    /\ UNCHANGED <<runFixed, interruptedAt, closeFailed, navigated, openPages, failedAt,
                   selected, idx, detailData, detailed, reported, warnings, outcomes, sleeps>>

\* the loop takes the next member; detail_data = {}; the context check
BeginMember ==
    /\ mode = "scrape_details" /\ pc = "loop" /\ idx < Len(selected)
    /\ detailData' = EmptyDetail
    /\ IF context
       THEN /\ failedAt' = "none"
            /\ pc' = "m_new_page"
            /\ UNCHANGED warnings
       ELSE MemberRaise("context")
    /\ UNCHANGED <<runInputs, context, navigated, openPages, selected, idx, detailed,
                   reported, outcomes, sleeps, exitCode>>

\* page = await scraper.context.new_page()
MemberNewPage ==
    /\ mode = "scrape_details" /\ pc = "m_new_page"
    /\ \/ /\ openPages' = openPages + 1
          /\ pc' = "m_goto"
          /\ UNCHANGED <<failedAt, warnings>>
       \/ /\ MemberRaise("new_page")
          /\ UNCHANGED openPages
    /\ UNCHANGED <<runInputs, context, navigated, selected, idx, detailData, detailed,
                   reported, outcomes, sleeps, exitCode>>

\* a fetch that navigates again when the navigation has failed
MemberGotoRetry ==
    /\ mode = "scrape_details" /\ pc = "m_goto"
    /\ navigated' = Append(navigated, Member.detail_url)
    /\ \/ /\ pc' = "m_wait"
          /\ UNCHANGED <<failedAt, warnings>>
       \/ /\ Len(navigated) <= Len(selected)
          /\ pc' = "m_goto"
          /\ UNCHANGED <<failedAt, warnings>>
       \/ MemberRaise("goto")
    /\ UNCHANGED <<runInputs, context, openPages, selected, idx, detailData, detailed,
                   reported, outcomes, sleeps, exitCode>>

\* await page.goto(url, wait_until='networkidle')
MemberGoto ==
    /\ mode = "scrape_details" /\ pc = "m_goto"
    /\ navigated' = Append(navigated, Member.detail_url)
    /\ \/ /\ pc' = "m_wait"
          /\ UNCHANGED <<failedAt, warnings>>
       \/ MemberRaise("goto")
    /\ UNCHANGED <<runInputs, context, openPages, selected, idx, detailData, detailed,
                   reported, outcomes, sleeps, exitCode>>

\* await page.wait_for_timeout(2000); the debug HTML, whose own try swallows a failure
MemberWait ==
    /\ mode = "scrape_details" /\ pc = "m_wait"
    /\ \/ /\ pc' = "m_evaluate"
          /\ UNCHANGED <<failedAt, warnings>>
       \/ MemberRaise("wait")
    /\ UNCHANGED <<runInputs, context, navigated, openPages, selected, idx, detailData,
                   detailed, reported, outcomes, sleeps, exitCode>>

\* member_details = await page.evaluate(...); detail_data.update(member_details)
MemberEvaluate ==
    /\ mode = "scrape_details" /\ pc = "m_evaluate"
    /\ \/ /\ detailData' = [keys |-> DetailKeys, values |-> DetailScript(Member.page)]
          /\ pc' = "m_close"
          /\ UNCHANGED <<failedAt, warnings>>
       \/ /\ MemberRaise("evaluate")
          /\ UNCHANGED detailData
    /\ UNCHANGED <<runInputs, context, navigated, openPages, selected, idx, detailed,
                   reported, outcomes, sleeps, exitCode>>

\* await page.close()
MemberClose ==
    /\ mode = "scrape_details" /\ pc = "m_close"
    /\ \/ /\ openPages' = openPages - 1
          /\ pc' = "m_return"
          /\ UNCHANGED <<failedAt, warnings>>
       \/ /\ MemberRaise("close")
          /\ UNCHANGED openPages
    /\ UNCHANGED <<runInputs, context, navigated, selected, idx, detailData, detailed,
                   reported, outcomes, sleeps, exitCode>>

AppendMemberNoDelayAfterFailure ==
    /\ mode = "scrape_details" /\ pc = "m_return"
    /\ detailed' = Append(detailed, [name |-> Member.name, detail_url |-> Member.detail_url,
                                     keys |-> detailData.keys, details |-> detailData.values])
    /\ outcomes' = Append(outcomes, failedAt)
    /\ sleeps' = IF idx < Len(selected) - 1 /\ failedAt = "none" THEN sleeps + 1 ELSE sleeps
    /\ idx' = idx + 1
    /\ pc' = "loop"
    /\ UNCHANGED <<runInputs, context, navigated, openPages, failedAt, selected,
                   detailData, reported, warnings, exitCode>>

\* member_info = member_row.to_dict(); member_info.update(detail_data);
\* detailed_members.append(member_info); the delay before the next member.
\* a loop that leaves a member whose fetch failed out of the detailed list
AppendMemberSkipFailed ==
    /\ mode = "scrape_details" /\ pc = "m_return"
    /\ detailed' = IF failedAt = "none"
                   THEN Append(detailed, [name |-> Member.name, detail_url |-> Member.detail_url,
                                          keys |-> detailData.keys, details |-> detailData.values])
                   ELSE detailed
    /\ outcomes' = Append(outcomes, failedAt)
    /\ sleeps' = IF idx < Len(selected) - 1 THEN sleeps + 1 ELSE sleeps
    /\ idx' = idx + 1
    /\ pc' = "loop"
    /\ UNCHANGED <<runInputs, context, navigated, openPages, failedAt, selected,
                   detailData, reported, warnings, exitCode>>

\* No statement of the loop body raises an Exception, so the loop's own except
\* branch, which reports error_msg, is not entered.
AppendMember ==
    /\ mode = "scrape_details" /\ pc = "m_return"
    /\ detailed' = Append(detailed, [name |-> Member.name, detail_url |-> Member.detail_url,
                                     keys |-> detailData.keys, details |-> detailData.values])
    /\ outcomes' = Append(outcomes, failedAt)
    /\ sleeps' = IF idx < Len(selected) - 1 THEN sleeps + 1 ELSE sleeps
    /\ idx' = idx + 1
    /\ pc' = "loop"
    /\ UNCHANGED <<runInputs, context, navigated, openPages, failedAt, selected,
                   detailData, reported, warnings, exitCode>>

\* the with block is left: normally, by the crawl of the scrape command having
\* returned or the member loop having run out, or by the interrupt
Leaving ==
    \/ pc = "interrupted"
    \/ mode = "scrape_command" /\ pc = "done"
    \/ mode = "scrape_details" /\ pc = "loop" /\ idx = Len(selected)

ExitScraperLeavesOpen ==
    /\ mode \in CommandModes /\ Leaving
    /\ IF interruptedAt # "none"
       THEN exitCode' = 130 /\ pc' = "exited"
       ELSE exitCode' = exitCode /\ pc' = "export"
    /\ resources' = IF interruptedAt # "none" THEN resources ELSE {}
    /\ UNCHANGED <<runFixed, interruptedAt, closeFailed, context, navigated, openPages,
                   failedAt, selected, idx, detailData, detailed, reported, warnings,
                   outcomes, sleeps>>

\* __aexit__ awaits close(): context.close(), browser.close(), playwright.stop().
\* When they return, the exception that left the block goes on: the cancellation of
\* an interrupted run reaches asyncio.run, which raises KeyboardInterrupt, and run
\* returns 130.  When one of them raises, the later ones are not called and the
\* exception replaces the one that left the block: except Exception returns 1, unless
\* the event loop had already raised KeyboardInterrupt (Python before 3.11).
ExitScraper ==
    /\ mode \in CommandModes /\ Leaving
    /\ \/ /\ resources' = {}
          /\ IF interruptedAt # "none"
             THEN exitCode' = 130 /\ pc' = "exited"
             ELSE exitCode' = exitCode /\ pc' = "export"
          /\ UNCHANGED closeFailed
       \/ /\ resources' \in LeftOpen
          /\ closeFailed' = TRUE
          /\ exitCode' \in (IF interruptedAt # "none" THEN {1, 130} ELSE {1})
          /\ pc' = "exited"
    /\ UNCHANGED <<runFixed, interruptedAt, context, navigated, openPages, failedAt,
                   selected, idx, detailData, detailed, reported, warnings, outcomes, sleeps>>

\* the fields of the script's data object that hold lists
ListFields == {"social_media", "photos", "highlights"}

\* a cell of the CSV file: to_csv writes NaN and '' as an empty field, a text as it
\* is and a list, the empty one too, as its Python literal
EmptyCell == [kind |-> "empty", value |-> <<>>]

CsvCell(field, value) ==
    IF field \in ListFields THEN [kind |-> "list", value |-> value]
    ELSE IF value = <<>> THEN EmptyCell
    ELSE [kind |-> "text", value |-> value]

\* pd.DataFrame(detailed_members): the columns are the keys of all the dicts, and a
\* dict without a key has NaN in that column
DetailColumns(members) == UNION { members[i].keys : i \in 1..Len(members) }

CsvRow(member, columns) ==
    [ name |-> member.name, detail_url |-> member.detail_url,
      cells |-> [c \in columns |-> IF c \in member.keys
                                   THEN CsvCell(c, member.details[c])
                                   ELSE EmptyCell] ]

\* detailed_df.to_csv(output_file, index=False)
DetailsCsv(members) ==
    [ format |-> "csv", columns |-> DetailColumns(members),
      rows |-> [i \in 1..Len(members) |-> CsvRow(members[i], DetailColumns(members))] ]

\* the export of detailed_members and return 0, or return 1 when the export raises
ExportDetails ==
    /\ mode = "scrape_details" /\ pc = "export"
    /\ \/ /\ out' = Append(out, DetailsCsv(detailed))
          /\ exitCode' = 0
       \/ /\ exitCode' = 1
          /\ UNCHANGED out
    /\ pc' = "exited"
    /\ UNCHANGED <<mode, method, url, depth, logger, pageLinks, listing, results, returned,
                   propagated, doc, soup, data, pos, rows, startFrom, limit, driverVars,
                   context, navigated, openPages, failedAt, selected, idx,
                   detailData, detailed, reported, warnings, outcomes, sleeps>>

InitDetails ==
    /\ mode = "scrape_details"
    /\ method = "none"
    /\ pc = "load"
    /\ url = <<>>
    /\ depth = 1
    /\ context = FALSE
    /\ logger \in BOOLEAN
    /\ pageLinks = <<>>
    /\ listing = <<>>
    /\ results = NoResult
    /\ returned = NoResult
    /\ propagated = FALSE
    /\ navigated = <<>>
    /\ openPages = 0
    /\ failedAt = "none"
    /\ doc = <<>>
    /\ soup = <<>>
    /\ data = <<>>
    /\ pos = 0
    /\ out = <<>>
    /\ rows \in SeqsUpTo(SampleRows, MaxRows)
    /\ startFrom \in (-1)..MaxStart
    /\ limit \in (-1)..MaxLimit
    /\ selected = <<>> /\ idx = 0
    /\ detailData = EmptyDetail /\ detailed = <<>> /\ reported = <<>> /\ warnings = <<>>
    /\ outcomes = <<>> /\ sleeps = 0 /\ exitCode = -1
    /\ resources = {} /\ interruptedAt = "none" /\ closeFailed = FALSE

NextDetails ==
    \/ LoadMembers
    \/ EnterScraper
    \/ BeginMember
    \/ MemberNewPage
    \/ MemberGoto
    \/ MemberWait
    \/ MemberEvaluate
    \/ MemberClose
    \/ AppendMember
    \/ ExitScraper
    \/ ExportDetails

SpecDetails == InitDetails /\ [][NextDetails]_vars

----------------------------------------------------------------------------
(* Claims about the member loop *)

\* C4 (as claimed): a failure on one member's detail page is caught for that member
\* alone, is recorded as a formatted message naming the member in the run's error
\* list, and leaves the later members processed as they would have been.
C4_FailureRecorded ==
    mode = "scrape_details" =>
        /\ \A i \in 1..Len(outcomes) :
              outcomes[i] # "none" =>
                  \E n \in 1..Len(reported) : Includes(reported[n], <<selected[i].name>>)
        /\ Len(detailed) = idx
        /\ pc = "exited" /\ exitCode = 0 => idx = Len(selected)

----------------------------------------------------------------------------
(* HTMLParser.extract_metadata *)

MaxMeta == 2

\* a Python dict as a function on its keys; d[k] = v
Put(d, k, v) == [x \in (DOMAIN d) \cup {k} |-> IF x = k THEN v ELSE d[x]]

EmptyDict == [x \in {} |-> <<>>]

\* str.strip()
Strip(t) == Trim(t)

\* a meta element; an attribute that is not written is ""
Meta(name, property, content) ==
    [ tag |-> "meta", attrs |-> {}, name |-> name, property |-> property,
      content |-> content, class |-> <<>>, datetime |-> <<>>, text |-> <<>> ]

\* an element of the body
Body(tag, attrs, class, datetime, text) ==
    [ tag |-> tag, attrs |-> attrs, name |-> "", property |-> "", content |-> <<>>,
      class |-> class, datetime |-> datetime, text |-> text ]

MetaSamples ==
    { Meta("author", "", <<"A", "n", "n">>),
      Meta("author", "", <<" ", "B", "o", "b">>),
      Meta("date", "", <<"2", "0", "2", "0">>),
      Meta("date", "", <<"2", "0", "2", "1">>),
      Meta("title", "", <<"M", "e", "t", "a">>),
      Meta("description", "", <<"o", "n", "e">>),
      Meta("description", "", <<"t", "w", "o">>),
      Meta("", "article:author", <<"C", "y">>),
      Meta("", "article:published_time", <<"2", "0", "1", "9">>),
      Meta("viewport", "", <<>>),
      Body("span", {"class"}, <<"author">>, <<>>, <<"D", "e", "e">>),
      Body("time", {"datetime"}, <<>>, <<"2", "0", "1", "8">>, <<"M", "a", "y">>) }

TitleTexts == { <<" ", "H", "o", "m", "e", "\n">>, <<>> }

\* a document: its title element, when it has one, and its other elements in order
MetaDocs ==
    { [hasTitle |-> h, title |-> t, elems |-> e] :
        h \in BOOLEAN, t \in TitleTexts, e \in SeqsUpTo(MetaSamples, MaxMeta) }

\* name = meta.get('name') or meta.get('property')
MetaKey(el) == IF el.name # "" THEN el.name ELSE el.property

\* for meta in soup.find_all('meta'): if name and content: metadata[name] = content
RECURSIVE MetaLoop(_, _)
MetaLoop(md, elems) ==
    IF elems = <<>> THEN md
    ELSE LET el == Head(elems)
         IN  IF el.tag = "meta" /\ MetaKey(el) # "" /\ el.content # <<>>
             THEN MetaLoop(Put(md, MetaKey(el), el.content), Tail(elems))
             ELSE MetaLoop(md, Tail(elems))

AuthorSelectors ==
    << "meta[name=author]", "meta[property=article:author]", ".author", ".byline",
       "[class*=author]" >>

DateSelectors ==
    << "meta[property=article:published_time]", "meta[name=date]", "time[datetime]",
       ".date", ".published", "[class*=date]" >>

\* the CSS selector matches the element of the document
MetaMatches(selector, el) ==
    CASE selector = "meta[name=author]" -> el.tag = "meta" /\ el.name = "author"
      [] selector = "meta[property=article:author]" ->
             el.tag = "meta" /\ el.property = "article:author"
      [] selector = "meta[property=article:published_time]" ->
             el.tag = "meta" /\ el.property = "article:published_time"
      [] selector = "meta[name=date]"   -> el.tag = "meta" /\ el.name = "date"
      [] selector = "time[datetime]"    -> el.tag = "time" /\ "datetime" \in el.attrs
      [] selector = ".author"           -> <<"author">> \in ClassTokens(el)
      [] selector = ".byline"           -> <<"byline">> \in ClassTokens(el)
      [] selector = ".date"             -> <<"date">> \in ClassTokens(el)
      [] selector = ".published"        -> <<"published">> \in ClassTokens(el)
      [] selector = "[class*=author]"   -> Contains(el.class, "author")
      [] selector = "[class*=date]"     -> Contains(el.class, "date")
      [] OTHER                          -> FALSE

\* soup.select_one(selector) on the elements in document order: 0 for None
MetaSelectOne(elems, selector) ==
    LET hits == { i \in 1..Len(elems) : MetaMatches(selector, elems[i]) }
    IN  IF hits = {} THEN 0 ELSE CHOOSE i \in hits : \A j \in hits : i <= j

\* the first selector of the list with a match, 0 for none
FirstMatching(elems, selectors) ==
    LET hits == { n \in 1..Len(selectors) : MetaSelectOne(elems, selectors[n]) # 0 }
    IN  IF hits = {} THEN 0 ELSE CHOOSE n \in hits : \A m \in hits : n <= m

\* the author selectors: the first match of the first selector that has one
AuthorOf(md, elems) ==
    LET n == FirstMatching(elems, AuthorSelectors)
    IN  IF n = 0 THEN md
        ELSE LET element == elems[MetaSelectOne(elems, AuthorSelectors[n])]
             IN  IF element.tag = "meta"
                 THEN Put(md, "author", Strip(element.content))
                 ELSE Put(md, "author", Strip(element.text))

\* the date selectors
DateOf(md, elems) ==
    LET n == FirstMatching(elems, DateSelectors)
    IN  IF n = 0 THEN md
        ELSE LET element == elems[MetaSelectOne(elems, DateSelectors[n])]
             IN  IF element.tag = "meta"
                 THEN Put(md, "date", Strip(element.content))
                 ELSE Put(md, "date", IF element.datetime # <<>>
                                      THEN element.datetime
                                      ELSE Strip(element.text))

\* extract_metadata(soup)
ExtractMetadataOf(d) ==
    LET titled == IF d.hasTitle THEN Put(EmptyDict, "title", Strip(d.title)) ELSE EmptyDict
    IN  DateOf(AuthorOf(MetaLoop(titled, d.elems), d.elems), d.elems)

ExtractMetadata ==
    /\ mode = "extract_metadata" /\ pc = "parsed"
    /\ out' = ExtractMetadataOf(doc)
    /\ pc' = "extracted"
    /\ UNCHANGED <<crawlExceptPc, doc, soup, data, pos>>

InitMetadata ==
    /\ mode = "extract_metadata"
    /\ method = "none"
    /\ pc = "parsed"
    /\ url = HomeUrl
    /\ depth = 1
    /\ context = TRUE
    /\ logger = FALSE
    /\ pageLinks = <<>>
    /\ listing = <<>>
    /\ results = NoResult
    /\ returned = NoResult
    /\ propagated = FALSE
    /\ navigated = <<>>
    /\ openPages = 0
    /\ failedAt = "none"
    /\ doc \in MetaDocs
    /\ soup = <<>>
    /\ data = <<>>
    /\ pos = 0
    /\ out = EmptyDict
    /\ NoRun

NextMetadata == ExtractMetadata

SpecMetadata == InitMetadata /\ [][NextMetadata]_vars

----------------------------------------------------------------------------
(* Claims about the metadata *)

\* the positions of the meta tags stored under key k
TagsFor(elems, k) ==
    { i \in 1..Len(elems) :
        elems[i].tag = "meta" /\ MetaKey(elems[i]) = k /\ elems[i].content # <<>> }

MetaKeys(elems) == { MetaKey(elems[i]) : i \in { j \in 1..Len(elems) : elems[j].tag = "meta" } }

\* C11 (as claimed): when two meta tags of a document have the same name (or
\* property) and different non-empty content, the metadata holds under that key the
\* content of the second one, the keys author and date included.
C11_LastWins ==
    (mode = "extract_metadata" /\ pc = "extracted") =>
        \A k \in MetaKeys(doc.elems) \ {""} :
            \A i, j \in TagsFor(doc.elems, k) :
                (i < j /\ doc.elems[i].content # doc.elems[j].content
                    /\ \A n \in TagsFor(doc.elems, k) : n <= j) =>
                    (k \in DOMAIN out /\ out[k] = doc.elems[j].content)

\* C12 (as claimed): when the document has a title element, the metadata holds under
\* title the trimmed text of that element, whatever the meta tags of the document.
C12_TitleFromElement ==
    (mode = "extract_metadata" /\ pc = "extracted" /\ doc.hasTitle) =>
        ("title" \in DOMAIN out /\ out["title"] = Strip(doc.title))

----------------------------------------------------------------------------
(* DataExtractor: the page type *)

MaxPath == 2

PageTypes == {"article", "issue", "archive", "about", "homepage"}

\* str.lower(), on the fragments of the sample urls
LowerUrlFrag(f) ==
    CASE f = "/Article/" -> "/article/"
      [] f = "/POST/"    -> "/post/"
      [] f = "/Issues/"  -> "/issues/"
      [] f = "/Archive"  -> "/archive"
      [] f = "About"     -> "about"
      [] OTHER           -> f

UrlLower(u) == [i \in 1..Len(u) |-> LowerUrlFrag(u[i])]

DeterminePageTypeAboutFirst(tree, u) ==
    IF Contains(UrlLower(u), "about") THEN "about"
    ELSE IF Contains(UrlLower(u), "/article/") \/ Contains(UrlLower(u), "/post/")
    THEN "article"
    ELSE "homepage"

\* _determine_page_type(soup, url): soup is not read
DeterminePageType(tree, u) ==
    LET url_lower == UrlLower(u)
    IN  IF Contains(url_lower, "/article/") \/ Contains(url_lower, "/post/")
        THEN "article"
        ELSE IF Contains(url_lower, "/issue/") \/ Contains(url_lower, "/issues/")
        THEN "issue"
        ELSE IF Contains(url_lower, "/archive") \/ Includes(url_lower, <<"/archive", "s/">>)
        THEN "archive"
        ELSE IF Contains(url_lower, "about")
        THEN "about"
        ELSE "homepage"

PathFragments ==
    { "/article/", "/Article/", "/POST/", "/issue/", "/Issues/", "/archive", "/Archive",
      "s/", "about", "About", "/news/" }

\* the urls a page is extracted under
PageUrls ==
    { <<"https://", "classicist.org">> \o path : path \in SeqsUpTo(PathFragments, MaxPath) }

----------------------------------------------------------------------------
(* DataExtractor: keywords and authors.  The text of the page is the sequence *)
(* of its whitespace-separated words, each a sequence of characters.          *)

MaxWords  == 22
MaxPhrases == 2

KeywordCap == 20
MinKeywordLen == 3

UpperCase == <<"A","B","C","D","E","F","G","H","I","J","K","L","M","N","O","P","Q","R","S","T","U","V","W","X","Y","Z">>
LowerCase == <<"a","b","c","d","e","f","g","h","i","j","k","l","m","n","o","p","q","r","s","t","u","v","w","x","y","z">>

IsUpper(c) == \E i \in 1..Len(UpperCase) : UpperCase[i] = c
IsLower(c) == \E i \in 1..Len(LowerCase) : LowerCase[i] = c

LowerChar(c) ==
    IF IsUpper(c) THEN LowerCase[CHOOSE i \in 1..Len(UpperCase) : UpperCase[i] = c] ELSE c

\* str.lower()
Lower(t) == [i \in 1..Len(t) |-> LowerChar(t[i])]

IsWordChar(c) == IsUpper(c) \/ IsLower(c) \/ IsDigit(c) \/ c = "_"

\* the whole word matches [A-Z][a-z]+
IsCapitalised(w) ==
    Len(w) >= 2 /\ IsUpper(w[1]) /\ \A i \in 2..Len(w) : IsLower(w[i])

\* the length of the longest prefix of the word that matches [A-Z][a-z]+, 0 for none
CapLead(w) ==
    IF w = <<>> \/ ~IsUpper(w[1]) THEN 0
    ELSE LET n == CHOOSE k \in 1..Len(w) :
                      /\ \A i \in 2..k : IsLower(w[i])
                      /\ (k = Len(w) \/ ~IsLower(w[k + 1]))
         IN  IF n >= 2 THEN n ELSE 0

\* the same for [A-Z][a-z]+\b: the prefix must end where the word does
CapRun(w) ==
    LET n == CapLead(w)
    IN  IF n > 0 /\ (n = Len(w) \/ ~IsWordChar(w[n + 1])) THEN n ELSE 0

\* re.findall(r'\b[A-Z][a-z]+(?:\s+[A-Z][a-z]+)?\b', content) over the words of the
\* text: a capitalised word, taken together with the next word when white space
\* alone separates them and that one is capitalised too
RECURSIVE FindCapitalised(_)
FindCapitalised(ws) ==
    IF ws = <<>> THEN <<>>
    ELSE IF CapRun(Head(ws)) = 0 THEN FindCapitalised(Tail(ws))
    ELSE IF IsCapitalised(ws[1]) /\ Len(ws) >= 2 /\ CapRun(ws[2]) > 0
         THEN <<ws[1] \o <<" ">> \o SubSeq(ws[2], 1, CapRun(ws[2]))>>
                  \o FindCapitalised(Tail(Tail(ws)))
         ELSE <<SubSeq(ws[1], 1, CapRun(ws[1]))>> \o FindCapitalised(Tail(ws))

CommonWords ==
    { <<"T", "h", "e">>,
      <<"A", "n", "d">>,
      <<"F", "o", "r">>,
      <<"W", "i", "t", "h">>,
      <<"T", "h", "a", "t">>,
      <<"T", "h", "i", "s">>,
      <<"F", "r", "o", "m">>,
      <<"H", "a", "v", "e">>,
      <<"N", "o", "t">>,
      <<"B", "u", "t">>,
      <<"Y", "o", "u">> }

\* [k.strip() for k in content.split(',') if k.strip()]
MetaKeywords(content) ==
    LET pieces == SplitOn(content, ",")
        kept   == SelectSeq(pieces, LAMBDA k : Strip(k) # <<>>)
    IN  [i \in 1..Len(kept) |-> Strip(kept[i])]

\* [word for word in words if word not in common_words and len(word) > 3]
FallbackKeywords(ws) ==
    SelectSeq(FindCapitalised(ws), LAMBDA w : w \notin CommonWords /\ Len(w) > MinKeywordLen)

KeepAll(s) == s

\* list(dict.fromkeys(keywords)): the first occurrence of every entry, in order
RECURSIVE DictFromKeys(_)
DictFromKeys(s) ==
    IF s = <<>> THEN <<>>
    ELSE LET front == DictFromKeys(SubSeq(s, 1, Len(s) - 1))
         IN  IF s[Len(s)] \in Range(front) THEN front ELSE Append(front, s[Len(s)])

\* _extract_keywords(soup)
ExtractKeywords(d) ==
    LET fromMeta == IF d.hasKeywords THEN MetaKeywords(d.keywords) ELSE <<>>
    IN  Take(DictFromKeys(fromMeta \o FallbackKeywords(d.words)), KeywordCap)

WordList ==
    << <<"A", "l", "p", "h", "a">>,
       <<"B", "r", "a", "v", "o">>,
       <<"C", "h", "a", "r", "l", "i", "e">>,
       <<"D", "e", "l", "t", "a">>,
       <<"E", "c", "h", "o">>,
       <<"F", "o", "x", "t", "r", "o", "t">>,
       <<"G", "o", "l", "f">>,
       <<"H", "o", "t", "e", "l">>,
       <<"I", "n", "d", "i", "a">>,
       <<"J", "u", "l", "i", "e", "t">>,
       <<"K", "i", "l", "o">>,
       <<"L", "i", "m", "a">>,
       <<"M", "i", "k", "e">>,
       <<"N", "o", "v", "e", "m", "b", "e", "r">>,
       <<"O", "s", "c", "a", "r">>,
       <<"P", "a", "p", "a">>,
       <<"Q", "u", "e", "b", "e", "c">>,
       <<"R", "o", "m", "e", "o">>,
       <<"S", "i", "e", "r", "r", "a">>,
       <<"T", "a", "n", "g", "o">>,
       <<"U", "n", "i", "f", "o", "r", "m">>,
       <<"V", "i", "c", "t", "o", "r">>,
       <<"W", "h", "i", "s", "k", "e", "y">>,
       <<"X", "r", "a", "y">> >>

\* the word ends with the characters of tail
EndsWith(w, tail) ==
    Len(w) >= Len(tail) /\ SubSeq(w, Len(w) - Len(tail) + 1, Len(w)) = tail

\* the word begins with a match of Ph\.?D
StartsPhD(w) ==
    \/ Len(w) >= 3 /\ SubSeq(w, 1, 3) = <<"P", "h", "D">>
    \/ Len(w) >= 4 /\ SubSeq(w, 1, 4) = <<"P", "h", ".", "D">>

\* self.author_patterns[n] matches at the words a, b, c:
\*   1  by\s+([A-Z][a-z]+\s+[A-Z][a-z]+)
\*   2  ([A-Z][a-z]+\s+[A-Z][a-z]+),?\s+Ph\.?D\.?
\*   3  Prof\.?\s+([A-Z][a-z]+\s+[A-Z][a-z]+)
PatternMatches(n, a, b, c) ==
    CASE n = 1 -> EndsWith(a, <<"b", "y">>) /\ IsCapitalised(b) /\ CapLead(c) > 0
      [] n = 2 -> /\ IsCapitalised(a)
                  /\ CapLead(b) > 0
                  /\ SubSeq(b, CapLead(b) + 1, Len(b)) \in {<<>>, <<",">>}
                  /\ StartsPhD(c)
      [] n = 3 -> /\ EndsWith(a, <<"P", "r", "o", "f">>) \/ EndsWith(a, <<"P", "r", "o", "f", ".">>)
                  /\ IsCapitalised(b) /\ CapLead(c) > 0
      [] OTHER -> FALSE

\* the group the pattern captures
PatternGroup(n, a, b, c) ==
    IF n = 2
    THEN a \o <<" ">> \o SubSeq(b, 1, CapLead(b))
    ELSE b \o <<" ">> \o SubSeq(c, 1, CapLead(c))

\* re.findall(pattern, content) over the words of the text
RECURSIVE FindAuthors(_, _)
FindAuthors(n, ws) ==
    IF Len(ws) < 3 THEN <<>>
    ELSE IF PatternMatches(n, ws[1], ws[2], ws[3])
         THEN <<PatternGroup(n, ws[1], ws[2], ws[3])>>
                  \o FindAuthors(n, SubSeq(ws, 4, Len(ws)))
         ELSE FindAuthors(n, Tail(ws))

\* the authors list before the duplicates are removed
AuthorCandidates(d) ==
    LET fromMeta == IF d.hasAuthor
                    THEN <<[name |-> Strip(d.author), type |-> "meta"]>> ELSE <<>>
        matches  == FindAuthors(1, d.words) \o FindAuthors(2, d.words) \o FindAuthors(3, d.words)
    IN  fromMeta \o [i \in 1..Len(matches) |-> [name |-> Strip(matches[i]), type |-> "extracted"]]

\* the loop over authors with the set seen
RECURSIVE UniqueAuthors(_)
UniqueAuthors(authors) ==
    IF authors = <<>> THEN <<>>
    ELSE LET front == UniqueAuthors(SubSeq(authors, 1, Len(authors) - 1))
             last  == authors[Len(authors)]
         IN  IF \E i \in 1..Len(front) : Lower(front[i].name) = Lower(last.name)
             THEN front ELSE Append(front, last)

\* _extract_authors(soup)
ExtractAuthors(d) == UniqueAuthors(AuthorCandidates(d))

\* the keys data.update adds for the page type
TypeKeys(t) ==
    CASE t = "article" -> {"content"}
      [] t = "issue"   -> {"articles"}
      [] t = "archive" -> {"issues"}
      [] OTHER         -> {}

\* extract_data(soup, url)
ExtractDataOf(d, u) ==
    [ keys      |-> {"page_type", "articles", "issues", "authors", "keywords"}
                        \cup TypeKeys(DeterminePageType(d, u)),
      page_type |-> DeterminePageType(d, u),
      keywords  |-> ExtractKeywords(d),
      authors   |-> ExtractAuthors(d) ]

ExtractData ==
    /\ mode = "extract_data" /\ pc = "parsed"
    /\ out' = ExtractDataOf(doc, url)
    /\ pc' = "extracted"
    /\ UNCHANGED <<crawlExceptPc, doc, soup, data, pos>>

----------------------------------------------------------------------------
(* Sample pages *)

\* the first n words of WordList, apart by the word "of" when spaced
RECURSIVE LongWords(_, _)
LongWords(n, spaced) ==
    IF n = 0 THEN <<>>
    ELSE LongWords(n - 1, spaced) \o <<WordList[n]>> \o (IF spaced THEN <<<<"o", "f">>>> ELSE <<>>)

Phrases ==
    { <<<<"b", "y">>, <<"J", "o", "h", "n">>, <<"S", "m", "i", "t", "h">>>>,
      <<<<"P", "r", "o", "f", ".">>, <<"J", "o", "h", "n">>, <<"S", "m", "i", "t", "h">>>>,
      <<<<"A", "n", "n">>, <<"L", "e", "e", ",">>, <<"P", "h", ".", "D", ".">>>>,
      <<<<"R", "o", "m", "e">>>>,
      <<<<"r", "o", "m", "e">>>>,
      <<<<"T", "h", "e">>>>,
      <<<<"C", "l", "a", "s", "s", "i", "c", "a", "l">>, <<"A", "r", "t">>>>,
      <<<<"A", "r", "t">>>>,
      <<<<"o", "f">>>> }

RECURSIVE Flatten(_)
Flatten(ss) == IF ss = <<>> THEN <<>> ELSE Head(ss) \o Flatten(Tail(ss))

KeywordContents == { <<>>, <<"r", "o", "m", "e", ",", " ", "R", "o", "m", "e", ",", ",", "A", "r", "t", " ">>, <<"A", "l", "p", "h", "a", ",", "B", "r", "a", "v", "o">> }

AuthorContents == { <<"j", "o", "h", "n", " ", "s", "m", "i", "t", "h">>, <<"A", "n", "n", " ", "L", "e", "e", " ">> }

Page(hk, k, ha, a, ws) ==
    [hasKeywords |-> hk, keywords |-> k, hasAuthor |-> ha, author |-> a, words |-> ws]

PlainPage == Page(FALSE, <<>>, FALSE, <<>>, <<>>)

LongPages ==
    { Page(k # <<>>, k, FALSE, <<>>, LongWords(n, spaced)) :
        k \in KeywordContents, n \in 0..MaxWords, spaced \in BOOLEAN }

ShortPages ==
    { Page(TRUE, k, ha, a, Flatten(ps)) :
        k \in KeywordContents, ha \in BOOLEAN, a \in AuthorContents,
        ps \in SeqsUpTo(Phrases, MaxPhrases) }

InitExtract ==
    /\ mode = "extract_data"
    /\ method = "none"
    /\ pc = "parsed"
    /\ \/ url \in PageUrls /\ doc \in {PlainPage, Page(TRUE, <<"r", "o", "m", "e", ",", " ", "R", "o", "m", "e", ",", ",", "A", "r", "t", " ">>, TRUE, <<"j", "o", "h", "n", " ", "s", "m", "i", "t", "h">>, <<>>)}
       \/ url = HomeUrl /\ doc \in LongPages \cup ShortPages
    /\ depth = 1
    /\ context = TRUE
    /\ logger = FALSE
    /\ pageLinks = <<>>
    /\ listing = <<>>
    /\ results = NoResult
    /\ returned = NoResult
    /\ propagated = FALSE
    /\ navigated = <<>>
    /\ openPages = 0
    /\ failedAt = "none"
    /\ soup = <<>>
    /\ data = <<>>
    /\ pos = 0
    /\ out = <<>>
    /\ NoRun

NextExtract == ExtractData

SpecExtract == InitExtract /\ [][NextExtract]_vars

----------------------------------------------------------------------------
(* Claims about extract_data *)

ArticleLike(u) == \E i \in 1..Len(u) : u[i] \in {"/article/", "/Article/", "/post/", "/POST/"}
IssueLike(u)   == \E i \in 1..Len(u) : u[i] \in {"/issue/", "/issues/", "/Issues/"}
ArchiveLike(u) == \E i \in 1..Len(u) : u[i] \in {"/archive", "/Archive"}
AboutLike(u)   == \E i \in 1..Len(u) : u[i] \in {"about", "About"}

AllKeywords(d) ==
    (IF d.hasKeywords THEN MetaKeywords(d.keywords) ELSE <<>>) \o FallbackKeywords(d.words)

\* the position of the first occurrence of x in s
FirstPos(s, x) == CHOOSE i \in 1..Len(s) : s[i] = x /\ \A j \in 1..(i - 1) : s[j] # x

C15_NoCaseDuplicates ==
    (mode = "extract_data" /\ pc = "extracted") =>
        /\ \A i, j \in 1..Len(out.authors) :
              i < j => Lower(out.authors[i].name) # Lower(out.authors[j].name)
        /\ \A i, j \in 1..Len(out.keywords) :
              i < j => Lower(out.keywords[i]) # Lower(out.keywords[j])

----------------------------------------------------------------------------
(* HTMLParser.extract_links.  A url is the tuple urlparse splits it into: the *)
(* scheme, the network location, the path as its pieces between the slashes   *)
(* (<<>> for an empty path) and the fragment.                                  *)

MaxAnchors == 2

Url(scheme, netloc, path, fragment) ==
    [scheme |-> scheme, netloc |-> netloc, path |-> path, fragment |-> fragment]

\* the empty string
NoUrl == Url("", "", <<>>, "")

\* urllib.parse.uses_relative and uses_netloc, as far as the sample urls go
UsesRelative == {"", "http", "https", "ftp", "file"}
UsesNetloc   == {"", "http", "https", "ftp", "file"}

\* segments[1:-1] = filter(None, segments[1:-1])
FilterInner(segments) ==
    IF Len(segments) <= 2 THEN segments
    ELSE <<segments[1]>>
            \o SelectSeq(SubSeq(segments, 2, Len(segments) - 1), LAMBDA g : g # "")
            \o <<segments[Len(segments)]>>

\* the loop that resolves the . and .. segments
RECURSIVE Resolve(_, _)
Resolve(resolved, segments) ==
    IF segments = <<>> THEN resolved
    ELSE IF Head(segments) = ".."
         THEN Resolve(IF resolved = <<>> THEN <<>> ELSE SubSeq(resolved, 1, Len(resolved) - 1),
                      Tail(segments))
    ELSE IF Head(segments) = "."
         THEN Resolve(resolved, Tail(segments))
    ELSE Resolve(Append(resolved, Head(segments)), Tail(segments))

\* '/'.join(resolved_path) or '/', and the slash urlunparse puts after a netloc
JoinedPath(netloc, resolved) ==
    IF resolved = <<>> \/ resolved = <<"">> THEN <<"", "">>
    ELSE IF netloc # "" /\ resolved[1] # "" THEN <<"">> \o resolved
    ELSE resolved

\* urllib.parse.urljoin(base, url)
Urljoin(base, u) ==
    IF base = NoUrl THEN u
    ELSE IF u = NoUrl THEN base
    ELSE LET scheme == IF u.scheme = "" THEN base.scheme ELSE u.scheme
         IN  IF scheme # base.scheme \/ scheme \notin UsesRelative
             THEN u
             ELSE IF scheme \in UsesNetloc /\ u.netloc # ""
             THEN Url(scheme, u.netloc, u.path, u.fragment)
             ELSE IF u.path = <<>>
             THEN Url(scheme, base.netloc, base.path, u.fragment)
             ELSE LET bpath      == IF base.path = <<>> THEN <<"">> ELSE base.path
                      base_parts == IF bpath[Len(bpath)] # ""
                                    THEN SubSeq(bpath, 1, Len(bpath) - 1) ELSE bpath
                      segments   == IF u.path[1] = "" /\ Len(u.path) > 1
                                    THEN u.path
                                    ELSE FilterInner(base_parts \o u.path)
                      resolved   == Resolve(<<>>, segments)
                      closed     == IF segments[Len(segments)] \in {".", ".."}
                                    THEN Append(resolved, "") ELSE resolved
                  IN  Url(scheme, base.netloc, JoinedPath(base.netloc, closed), u.fragment)

\* extract_links(soup, base_url)
ExtractLinksOf(anchors, base_url) ==
    LET found == SelectSeq(anchors, LAMBDA a : a.hasHref)
    IN  [ i \in 1..Len(found) |->
            [ url   |-> IF base_url # NoUrl THEN Urljoin(base_url, found[i].href)
                        ELSE found[i].href,
              text  |-> found[i].text,
              title |-> found[i].title ] ]

ExtractLinks ==
    /\ mode = "extract_links" /\ pc = "parsed"
    /\ out' = ExtractLinksOf(doc, data)
    /\ pc' = "extracted"
    /\ UNCHANGED <<crawlExceptPc, doc, soup, data, pos>>

\* the href values of the sample anchors:
\*   https://example.com/x  /about/  page.html  ../up  #top  //cdn.example.com/a
\*   mailto:info@classicist.org  and the empty href
Hrefs ==
    { Url("https", "example.com", <<"", "x">>, ""),
      Url("", "", <<"", "about", "">>, ""),
      Url("", "", <<"page.html">>, ""),
      Url("", "", <<"..", "up">>, ""),
      Url("", "", <<>>, "top"),
      Url("", "cdn.example.com", <<"", "a">>, ""),
      Url("mailto", "", <<"info@classicist.org">>, ""),
      NoUrl }

\* the a elements of a page; one has no href attribute
Anchors ==
    { [hasHref |-> TRUE, href |-> h, text |-> "link", title |-> ""] : h \in Hrefs }
        \cup { [hasHref |-> FALSE, href |-> NoUrl, text |-> "top", title |-> ""] }

\* base_url: its default "", https://classicist.org/dir/page, https://classicist.org
\* and the relative docs/
BaseUrls ==
    { NoUrl,
      Url("https", "classicist.org", <<"", "dir", "page">>, ""),
      Url("https", "classicist.org", <<>>, ""),
      Url("", "", <<"docs", "">>, "") }

InitLinks ==
    /\ mode = "extract_links"
    /\ method = "none"
    /\ pc = "parsed"
    /\ url = HomeUrl
    /\ depth = 1
    /\ context = TRUE
    /\ logger = FALSE
    /\ pageLinks = <<>>
    /\ listing = <<>>
    /\ results = NoResult
    /\ returned = NoResult
    /\ propagated = FALSE
    /\ navigated = <<>>
    /\ openPages = 0
    /\ failedAt = "none"
    /\ doc \in SeqsUpTo(Anchors, MaxAnchors)
    /\ soup = <<>>
    /\ data \in BaseUrls
    /\ pos = 0
    /\ out = <<>>
    /\ NoRun

NextLinks == ExtractLinks

SpecLinks == InitLinks /\ [][NextLinks]_vars

----------------------------------------------------------------------------
(* Claims about the links *)

\* a url that stands on its own: it names its scheme
IsAbsolute(u) == u.scheme # ""

\* C16 (as claimed): every link record of extract_links carries an absolute url,
\* whether the href is relative or absolute and whatever base_url is, its default
\* included.
C16_AbsoluteLinks ==
    (mode = "extract_links" /\ pc = "extracted") =>
        \A i \in 1..Len(out) : IsAbsolute(out[i].url)

----------------------------------------------------------------------------
(* ScrapeCommand.run and ScrapeDetailsCommand.run, with the interrupt *)

runState == <<context, navigated, openPages, failedAt, selected, idx, detailData,
              detailed, reported, warnings, outcomes, sleeps>>

\* setup_directories of ScrapeCommand._run_async
SetupScrape ==
    /\ mode = "scrape_command" /\ pc = "load"
    /\ \/ /\ pc' = "initialize"
          /\ UNCHANGED exitCode
       \/ /\ exitCode' = 1
          /\ pc' = "exited"
    /\ UNCHANGED <<runInputs, context, navigated, openPages, failedAt, selected, idx,
                   detailData, detailed, reported, warnings, outcomes, sleeps>>

\* the dispatch of _run_async on "membership-directory" in args.url, and the same
\* dispatch of scrape
RunScrape ==
    /\ mode = "scrape_command" /\ pc = "idle"
    /\ method' = IF IsDirectoryUrl(url) THEN "directory" ELSE "generic"
    /\ results' = IF IsDirectoryUrl(url) THEN DirectoryResults(url) ELSE GenericResults(url)
    /\ pc' = "context"
    /\ UNCHANGED <<notCrawl, mode, url, depth, context, logger, pageLinks, listing, returned,
                   propagated, navigated, openPages, failedAt>>

\* --format, choices=["json", "csv", "excel"]
Formats == {"json", "csv", "excel"}

\* data.get('data', [])
PagesOf(d) == IF "data" \in d.keys THEN d.data ELSE <<>>

\* data.get('errors', [])
ErrorsOf(d) == IF "errors" \in d.keys THEN d.errors ELSE <<>>

\* the entry _prepare_for_json and _flatten_for_csv make of one page
PageRow(page) == [url |-> page.url, title |-> page.title, links_count |-> Len(page.links)]

\* _prepare_for_json: export_info, scraping_info and one entry for each page of
\* data['data']
PrepareForJson(d) ==
    [ format |-> "json", source |-> d.url, pages_found |-> Len(PagesOf(d)),
      errors |-> ErrorsOf(d),
      rows |-> [i \in 1..Len(PagesOf(d)) |-> PageRow(PagesOf(d)[i])] ]

\* _flatten_for_csv: one row for each page of data['data']
FlattenForCsv(d) == [i \in 1..Len(PagesOf(d)) |-> PageRow(PagesOf(d)[i])]

\* the row _export_csv and _export_excel write when there is no page
BasicRow(d) == [url |-> d.url, title |-> <<>>, links_count |-> 0]

\* DataExporter.export: the file it writes
Export(d, format) ==
    IF format = "json"
    THEN PrepareForJson(d)
    ELSE [ format |-> format, source |-> d.url, pages_found |-> Len(PagesOf(d)),
           errors |-> <<>>,
           rows |-> IF FlattenForCsv(d) = <<>> THEN <<BasicRow(d)>> ELSE FlattenForCsv(d) ]

\* an export that reports a failure when the crawl has recorded an error
ExportDataFailsOnErrors ==
    /\ mode = "scrape_command" /\ pc = "export"
    /\ \E format \in Formats :
          /\ out' = Append(out, Export(returned, format))
          /\ exitCode' = IF returned.errors # <<>> THEN 1 ELSE 0
    /\ pc' = "exited"
    /\ UNCHANGED <<mode, method, url, depth, logger, pageLinks, listing, results, returned,
                   propagated, doc, soup, data, pos, rows, startFrom, limit, driverVars,
                   context, navigated, openPages, failedAt, selected, idx,
                   detailData, detailed, reported, warnings, outcomes, sleeps>>

\* exporter.export(data, format=args.format) writes the file and the command returns
\* 0, or the export raises and the command returns 1
ExportData ==
    /\ mode = "scrape_command" /\ pc = "export"
    /\ \/ \E format \in Formats :
             /\ out' = Append(out, Export(returned, format))
             /\ exitCode' = 0
       \/ /\ exitCode' = 1
          /\ UNCHANGED out
    /\ pc' = "exited"
    /\ UNCHANGED <<mode, method, url, depth, logger, pageLinks, listing, results, returned,
                   propagated, doc, soup, data, pos, rows, startFrom, limit, driverVars,
                   context, navigated, openPages, failedAt, selected, idx,
                   detailData, detailed, reported, warnings, outcomes, sleeps>>

CrawlSteps == {"idle", "context", "new_page", "goto", "wait", "debug", "evaluate", "close", "return"}

MemberSteps == {"m_new_page", "m_goto", "m_wait", "m_evaluate", "m_close", "m_return"}

\* the command is inside the with block
InBody ==
    \/ mode = "scrape_command" /\ pc \in CrawlSteps
    \/ mode = "scrape_details" /\ pc \in MemberSteps
    \/ mode = "scrape_details" /\ pc = "loop" /\ idx < Len(selected)

\* the interrupt (SIGINT) arrives.  Inside the with block the cancellation is no
\* Exception: no except branch of the crawl catches it and it leaves the block through
\* __aexit__.  Before the block is entered there is no __aexit__ to run; while close()
\* runs, its remaining calls are given up; run's except KeyboardInterrupt returns 130.
Interrupt ==
    /\ mode \in CommandModes /\ interruptedAt = "none"
    /\ \/ /\ InBody
          /\ interruptedAt' = pc
          /\ pc' = "interrupted"
          /\ UNCHANGED <<resources, exitCode>>
       \/ /\ pc \in {"load", "export"}
          /\ interruptedAt' = pc
          /\ exitCode' = 130
          /\ pc' = "exited"
          /\ UNCHANGED resources
       \/ /\ pc = "initialize"
          /\ interruptedAt' = pc
          /\ resources' \in Started
          /\ exitCode' = 130
          /\ pc' = "exited"
       \/ /\ Leaving
          /\ interruptedAt' = "closing"
          /\ resources' \in LeftOpen
          /\ exitCode' = 130
          /\ pc' = "exited"
    /\ UNCHANGED <<runFixed, closeFailed, context, navigated, openPages, failedAt,
                   selected, idx, detailData, detailed, reported, warnings, outcomes, sleeps>>

InitCommand ==
    /\ mode \in CommandModes
    /\ method = "none"
    /\ pc = "load"
    /\ IF mode = "scrape_command"
       THEN /\ url \in SeedUrls
            /\ depth \in 1..MaxDepth
            /\ pageLinks \in {<<>>, <<AboutUrl>>}
            /\ listing \in SampleListings
            /\ rows = <<>> /\ startFrom = 0 /\ limit = 0
       ELSE /\ url = <<>>
            /\ depth = 1
            /\ pageLinks = <<>>
            /\ listing = <<>>
            /\ rows \in SeqsUpTo(SampleRows, MaxRows)
            /\ startFrom \in (-1)..MaxStart
            /\ limit \in (-1)..MaxLimit
    /\ context = FALSE
    /\ logger \in BOOLEAN
    /\ results = NoResult
    /\ returned = NoResult
    /\ propagated = FALSE
    /\ navigated = <<>>
    /\ openPages = 0
    /\ failedAt = "none"
    /\ doc = <<>>
    /\ soup = <<>>
    /\ data = <<>>
    /\ pos = 0
    /\ out = <<>>
    /\ selected = <<>> /\ idx = 0
    /\ detailData = EmptyDetail /\ detailed = <<>> /\ reported = <<>> /\ warnings = <<>>
    /\ outcomes = <<>> /\ sleeps = 0 /\ exitCode = -1
    /\ resources = {} /\ interruptedAt = "none" /\ closeFailed = FALSE

NextCommand ==
    \/ SetupScrape
    \/ LoadMembers
    \/ EnterScraper
    \/ RunScrape
    \/ CheckContext
    \/ NewPage
    \/ Goto
    \/ WaitForTimeout
    \/ SaveDebugFiles
    \/ EvaluateDirectory
    \/ EvaluateGeneric
    \/ ClosePage
    \/ Return
    \/ BeginMember
    \/ MemberNewPage
    \/ MemberGoto
    \/ MemberWait
    \/ MemberEvaluate
    \/ MemberClose
    \/ AppendMember
    \/ Interrupt
    \/ ExitScraper
    \/ ExportData
    \/ ExportDetails

SpecCommand == InitCommand /\ [][NextCommand]_vars

----------------------------------------------------------------------------
(* Claims about the commands *)

C18_SequentialWithDelay ==
    (mode = "scrape_details" /\ pc \in MemberSteps) =>
        /\ Len(outcomes) = idx /\ Len(detailed) = idx
        /\ sleeps = idx
        /\ Len(navigated) <= idx + 1
        /\ (pc = "m_new_page" => Len(navigated) <= idx)

C18_Witness ==
    /\ mode = "scrape_details" /\ pc = "m_new_page"
    /\ idx = 1 /\ outcomes = <<"goto">> /\ sleeps = 1

----------------------------------------------------------------------------
(* The crawl whose awaits all return or raise *)

\* the crawls of pages with at most one link
InitCrawlFair == InitCrawl /\ Len(pageLinks) <= 1

\* every await of the crawl returns or raises in the end (page.set_default_timeout)
SpecCrawlFair == InitCrawlFair /\ [][NextCrawl]_vars /\ WF_vars(NextCrawl)

CrawlModes == {"scrape", "scrape_members_directory", "_scrape_generic_page"}

\* C19: a crawl that starts idle reaches done and hands back its results, whatever
\* awaits raise on the way, and once it is past the fetch of the seed it does not
\* go back to it.
C19_ReachesDone ==
    /\ (mode \in CrawlModes /\ pc = "idle") ~>
          (pc = "done" /\ returned = results /\ returned.url = url)
    /\ [][ (mode \in CrawlModes /\ pc \notin FetchSteps \cup {"idle"}) =>
              pc' \notin FetchSteps ]_vars

C19_Witness ==
    /\ mode \in CrawlModes /\ pc = "done"
    /\ failedAt = "evaluate" /\ returned = results /\ Len(returned.errors) = 1

\* C20 (as claimed): a directory crawl navigates to exactly one page, the url it was
\* given, and its result has members and errors and no page records.
C20_OneNavigationAsClaimed ==
    (mode \in CrawlModes /\ pc = "done" /\ method = "directory") =>
        /\ navigated = <<url>>
        /\ {"members", "errors"} \subseteq returned.keys /\ "data" \notin returned.keys

\* C20 (amended): a crawl of a url that contains membership-directory through scrape,
\* and any crawl through scrape_members_directory, is a directory crawl; it navigates
\* to the url it was given and to nothing else, once and only once when a page could
\* be opened and not at all otherwise, whatever the depth and the number of members;
\* its result has members and errors and no page records.
C20_OneNavigation ==
    /\ (mode = "scrape" /\ method # "none" /\ Contains(url, "membership-directory"))
          => method = "directory"
    /\ (mode = "scrape_members_directory" /\ method # "none") => method = "directory"
    /\ (mode \in CrawlModes /\ method = "directory") =>
          /\ navigated \in {<<>>, <<url>>}
          /\ pc \in {"wait", "debug", "evaluate", "close"} => navigated = <<url>>
          /\ pc = "done" =>
                /\ (navigated = <<>>) = (failedAt \in {"context", "new_page"})
                /\ {"members", "errors"} \subseteq returned.keys
                /\ "data" \notin returned.keys /\ returned.data = <<>>

C20_Witness ==
    /\ mode = "scrape" /\ pc = "done" /\ method = "directory"
    /\ url = OldDirUrl /\ depth = 2
    /\ Len(returned.members) = 2 /\ navigated = <<url>>

----------------------------------------------------------------------------
(* Claims about the members a scrape-details run selects, fetches and exports *)

\* the rows that have a detail url, in input order
MembersWithUrls == SelectSeq(rows, HasDetailUrl)

\* the rows at positions from .. to - 1 (counted from 0) of a sequence
RowsBetween(s, from, to) ==
    [i \in 1..(IF to > from THEN to - from ELSE 0) |-> s[from + i]]

\* C22: for 0 <= start_from the members processed are exactly the rows at positions
\* start_from .. min(start_from + limit, n) - 1 of the n rows with a detail url, in
\* input order.
C22_SelectedAsClaimed ==
    (mode = "scrape_details" /\ pc \notin {"load", "exited"} /\ startFrom >= 0) =>
        selected = RowsBetween(MembersWithUrls, startFrom,
                               Min(startFrom + limit, Len(MembersWithUrls)))

\* C24 (as claimed): within one run no url is navigated to twice.
C24_EachUrlOnce ==
    mode \in CommandModes =>
        \A i, j \in 1..Len(navigated) : i # j => navigated[i] # navigated[j]

\* C24 (amended): no retries.  A crawl navigates at most once, to its url.  A
\* scrape-details run navigates at most once for each selected row, to that row's
\* detail url: the navigations never outnumber the rows begun, and when a row is
\* about to be fetched every navigation made so far belongs to an earlier row,
\* whether those fetches had failed or not.  A url listed in two rows is navigated
\* to once for each row.
C24_NoRetries ==
    /\ mode = "scrape_command" => navigated \in {<<>>, <<url>>}
    /\ mode = "scrape_details" =>
          /\ Len(navigated) <= Min(idx + 1, Len(selected))
          /\ pc \in {"loop", "m_new_page", "m_goto"} => Len(navigated) <= idx
          /\ Len(navigated) >= Cardinality({i \in 1..Len(outcomes) :
                                    outcomes[i] \in {"goto", "wait", "evaluate", "none"}})
          /\ \A k \in 1..Len(navigated) :
                \E i \in k..Len(selected) : navigated[k] = selected[i].detail_url

C24_Witness ==
    /\ mode = "scrape_details" /\ pc = "exited" /\ exitCode = 0
    /\ outcomes = <<"goto", "none">> /\ Len(navigated) = 2

\* the detailed list has been written
DetailsExported ==
    mode = "scrape_details" /\ pc = "exited" /\ exitCode = 0 /\ Len(out) = 1

\* the detail page of the i-th selected member could not be fetched: the call failed
\* before detail_data.update
FetchFailed(i) == outcomes[i] \in {"context", "new_page", "goto", "wait", "evaluate"}

\* the i-th selected member's page was read and yielded no field
NoFields(i) == outcomes[i] = "none" /\ detailed[i].details = DefaultData

\* C26 (as claimed): in the exported list a member whose detail page could not be
\* fetched cannot be told from a member whose page yielded no fields.
C26_Indistinguishable ==
    DetailsExported =>
        \A i, j \in 1..Len(selected) :
            (FetchFailed(i) /\ NoFields(j)) => out[1].rows[i].cells = out[1].rows[j].cells

\* C26 (amended): in a scrape-details run that is not interrupted every selected
\* member is one row of the exported list, in input order, whether its fetch
\* succeeded or not.  The row of a member whose fetch failed has its listing fields
\* and nothing in any detail column; the row of a member whose page was read has the
\* empty list in its social_media, photos and highlights columns even when the page
\* yielded no field, so the two rows differ.
C26_EveryMemberExported ==
    DetailsExported =>
        /\ Len(out[1].rows) = Len(selected)
        /\ \A i \in 1..Len(selected) :
              /\ out[1].rows[i].name = selected[i].name
              /\ out[1].rows[i].detail_url = selected[i].detail_url
              /\ FetchFailed(i) =>
                    \A c \in out[1].columns : out[1].rows[i].cells[c] = EmptyCell
              /\ NoFields(i) =>
                    /\ out[1].columns = DetailKeys
                    /\ \A c \in DetailKeys :
                          out[1].rows[i].cells[c] =
                              (IF c \in ListFields THEN [kind |-> "list", value |-> <<>>]
                               ELSE EmptyCell)

C26_Witness ==
    /\ DetailsExported
    /\ Len(selected) = 2 /\ FetchFailed(1) /\ NoFields(2)

----------------------------------------------------------------------------
(* Claims about the exit code and the export of the scrape command *)

\* C25 (as claimed): the scrape command returns 1 only when an exception escapes
\* set-up, crawl or export.
C25_ExitCodeAsClaimed ==
    (mode = "scrape_command" /\ pc = "exited" /\ exitCode = 1) => ~closeFailed

\* C25 (amended): the exit code of the scrape command does not depend on the crawl's
\* error list.  No step of the crawl, failing or not, sets it; an export that has
\* written its file gives 0 whatever the result holds; 0 comes from nothing else; 1
\* comes only from an exception in set-up (setup_directories, the start of the
\* scraper), in export, or in the close() that runs when the with block is left;
\* 130 comes only from an interrupt.
C25_ExitCode ==
    [][mode = "scrape_command" =>
          /\ (pc \in CrawlSteps /\ pc' \in CrawlSteps \cup {"done"}) => exitCode' = exitCode
          /\ (pc = "export" /\ Len(out') > Len(out)) => exitCode' = 0
          /\ (exitCode' = 0 /\ exitCode # 0) => (pc = "export" /\ Len(out') = 1)
          /\ (exitCode' = 1 /\ exitCode # 1) =>
                (pc \in {"load", "initialize", "export"} \/ (Leaving /\ closeFailed'))
          /\ (exitCode' = 130 /\ exitCode # 130) => interruptedAt' # "none"]_vars

C25_Witness ==
    /\ mode = "scrape_command" /\ pc = "exited" /\ exitCode = 0
    /\ method = "generic" /\ failedAt = "goto"
    /\ returned.data = <<>> /\ Len(returned.errors) = 1

\* C27: the file the scrape command exports for a directory result with k members
\* holds those k members: one entry for each of them, under its name.
C27_MembersExported ==
    (mode = "scrape_command" /\ pc = "exited" /\ exitCode = 0 /\ method = "directory") =>
        /\ Len(out[1].rows) >= Len(returned.members)
        /\ \A i \in 1..Len(returned.members) :
              \E r \in 1..Len(out[1].rows) : out[1].rows[r].title = returned.members[i].name

\* C28: every page a crawl or a member fetch has opened is closed when that operation
\* returns, after a failure as after a success, so that at most one page is open at
\* any moment of the run.
C28_PagesClosed ==
    mode \in CommandModes =>
        /\ openPages <= 1
        /\ (mode = "scrape_command" /\ pc = "done") => openPages = 0
        /\ (mode = "scrape_details" /\ pc \in {"m_return", "loop"}) => openPages = 0

\* C29: once the with block of a command has been left, with no interrupt and with
\* every closing call having returned, nothing that initialize started (Playwright
\* driver, browser, context) is still open: after a normal exit, after an exception
\* in the block, and after a failure of initialize itself.
C29_AllClosed ==
    (mode \in CommandModes /\ pc \in {"export", "exited"}
        /\ interruptedAt = "none" /\ ~closeFailed) => resources = {}

----------------------------------------------------------------------------
(* The extractors on a document that extract_main_content has been called on *)

\* the words of the sample texts, as content.split() gives them
ShortTextWords == << <<"M", "e", "n", "u">> >>

LongTextWords ==
    << <<"T", "h", "e">>, <<"I", "n", "s", "t", "i", "t", "u", "t", "e">>,
       <<"o", "f">>, <<"C", "l", "a", "s", "s", "i", "c", "a", "l">>,
       <<"A", "r", "c", "h", "i", "t", "e", "c", "t", "u", "r", "e">>,
       <<"a", "n", "d">>, <<"A", "r", "t">>,
       <<"a", "d", "v", "a", "n", "c", "e", "s">>, <<"t", "h", "e">>,
       <<"p", "r", "a", "c", "t", "i", "c", "e">>, <<"a", "n", "d">>,
       <<"a", "p", "p", "r", "e", "c", "i", "a", "t", "i", "o", "n">>, <<"o", "f">>,
       <<"t", "h", "e">>, <<"c", "l", "a", "s", "s", "i", "c", "a", "l">>,
       <<"t", "r", "a", "d", "i", "t", "i", "o", "n", ".">> >>

WordsIn(t) == IF t = ShortText THEN ShortTextWords ELSE LongTextWords

\* the words of soup.get_text(): the strings are joined with nothing in between, so
\* the last word of a string runs into the first word of the next
RECURSIVE WordsOfStrings(_)
WordsOfStrings(strings) ==
    IF strings = <<>> THEN <<>>
    ELSE LET first == WordsIn(Head(strings))
             rest  == WordsOfStrings(Tail(strings))
         IN  IF rest = <<>> THEN first
             ELSE SubSeq(first, 1, Len(first) - 1)
                     \o <<first[Len(first)] \o Head(rest)>> \o Tail(rest)

\* _extract_keywords(soup) on a document without a keywords meta tag
KeywordsOfTree(tree) ==
    ExtractKeywords(Page(FALSE, <<>>, FALSE, <<>>, WordsOfStrings(GetText(tree, 0))))

\* data['keywords'] = self._extract_keywords(soup), after _extract_article_data has
\* called extract_main_content on the same soup
ExtractKeywordsOfSoup ==
    /\ mode = "parser" /\ pc = "located"
    /\ data' = KeywordsOfTree(soup)
    /\ pc' = "extracted"
    /\ UNCHANGED <<crawlExceptPc, doc, soup, pos, out>>

NextParser ==
    \/ ExtractMainContent
    \/ ExtractKeywordsOfSoup

SpecParser == InitParser /\ [][NextParser]_vars

\* C30: the extractors are functions of the document alone: the keywords extracted
\* after extract_main_content has been called on the document are the keywords of
\* the document as it was given.
C30_SameKeywords ==
    (mode = "parser" /\ pc = "extracted") => data = KeywordsOfTree(doc)

====
